---- MODULE Spec2Model ----
(***************************************************************************)
(* Verification model of the bee colony simulation (bee_sim): the flower   *)
(* field's reservation protocol, the RolePolicy hysteresis/dwell state     *)
(* machine, the SignalBus and the worker's forager state machine.          *)
(*                                                                         *)
(* Units (floats of the source become scaled integers):                    *)
(*   nectar, carry, capacity : 1 = 0.05 nectar   (0.75 -> 15, 0.8 -> 16)   *)
(*   time (dt, ttl, dwell)   : 1 = 0.1 s                                   *)
(*   drives, hysteresis      : 1 = 0.01                                    *)
(*   signal intensity        : 1 = 1e-6          (epsilon 1e-6 -> 1)       *)
(*   positions               : 1 = 1 pixel                                 *)
(* None is 0 wherever the source uses None for an identifier.              *)
(***************************************************************************)
EXTENDS Integers, Sequences, FiniteSets, TLC

VARIABLES
    flowers,    \* FlowerField.flowers: sequence of Flower records
    fop,        \* the last FlowerField call: its name, arguments, field before, result
    policy,     \* a RolePolicy: [current, dwell_t]
    pop,        \* the last RolePolicy call, with the policy before it and the time
                \* accumulated since the last switch
    role_drives,  \* a RoleDrives: the drive of each role, in units of 0.001
    dop,        \* the last RoleDrives update: its name, arguments, drives before
    bus,        \* a SignalBus: [heap, signals, by_kind]; heap holds the Signal
                \* objects, signals and by_kind hold references (heap indices)
    hist,       \* per Signal object: the ttl it was emitted with, the positive
                \* step time it has been through, whether a step left its
                \* intensity at or below epsilon, whether a step removed it
    bop,        \* the last SignalBus call: its name, arguments and result
    workers,    \* SimController._bees: the WorkerBee objects by id
    pending,    \* the workers still to be stepped in the current tick
    total_deposited,  \* World.total_deposited
    receiver_queue,   \* World._hive.receiver_queue
    hop,        \* the last Hive / World intake call: its name, arguments and result
    mark,       \* the number of signals ever emitted when the current tick began
    raised,     \* the workers whose update raised an exception in the current tick
    asked       \* per worker, what its reserve_nearest calls of the current tick
                \* returned, in call order (0 = None)

fieldVars == <<flowers, fop>>
roleVars == <<policy, pop, role_drives, dop>>
busVars == <<bus, hist, bop>>
simVars == <<workers, pending, total_deposited, receiver_queue, hop, mark, raised, asked>>
vars == <<flowers, fop, policy, pop, role_drives, dop, bus, hist, bop, workers, pending, total_deposited,
          receiver_queue, hop, mark, raised, asked>>

-----------------------------------------------------------------------------
(* Bounds of the model *)

NumFlowers == 2
NumWorkers == 2
MaxIntake == 8
MaxDwell == 50
MaxEmits == 2
MaxUpdates == 4

-----------------------------------------------------------------------------
(* Helpers *)

Min(a, b) == IF a <= b THEN a ELSE b

Max(a, b) == IF a >= b THEN a ELSE b

-----------------------------------------------------------------------------
(* flowers.py: Flower and FlowerField *)

\* Flower.available: nectar >= 0.75
AvailThreshold == 15

Available(f) == f.nectar >= AvailThreshold

\* Flower.frac, as a fraction num/den clamped to [0, 1]: returns the numerator
\* over the denominator f.cap (0 when cap <= 0)
FracNum(f) ==
    IF f.cap <= 0 THEN 0
    ELSE Max(0, Min(f.cap, f.nectar))

\* a step whose regrowth is not held at the capacity
FlowerStepUncapped(f, dt) ==
    IF dt <= 0 THEN f
    ELSE IF f.nectar < f.cap
         THEN LET growth == (f.regen_rate * (f.cap - FracNum(f)) * dt) \div (f.cap * 10)
              IN  [f EXCEPT !.nectar = f.nectar + growth]
         ELSE f

\* Flower.step(dt): saturating regrowth, rounded down to the nectar unit
\* growth = regen_rate * (1 - frac) * dt, regen_rate in nectar units per second
FlowerStep(f, dt) ==
    IF dt <= 0 THEN f
    ELSE IF f.nectar < f.cap
         THEN LET growth == (f.regen_rate * (f.cap - FracNum(f)) * dt) \div (f.cap * 10)
              IN  [f EXCEPT !.nectar = Min(f.cap, f.nectar + growth)]
         ELSE f

\* FlowerField.step(dt)
FieldStep(fl, dt) == [i \in 1..Len(fl) |-> FlowerStep(fl[i], dt)]

\* squared distance used by reserve_nearest
Dist2(f, x, y) == (f.x - x) * (f.x - x) + (f.y - y) * (f.y - y)

\* a reserve_nearest that does not look at the reserved flag
CandidateIgnoreReserved(f, avoid) == Available(f) /\ ~(f.id \in avoid)

\* FlowerField._iter_available filter plus the avoid test of reserve_nearest
Candidate(f, avoid) == (~f.reserved) /\ Available(f) /\ ~(f.id \in avoid)

\* reserve_nearest with the comparison turned round: keeps the farthest candidate
RECURSIVE NearestLoopFarthest(_, _, _, _, _, _, _)
NearestLoopFarthest(fl, i, x, y, avoid, best, best_d2) ==
    IF i > Len(fl) THEN best
    ELSE IF Candidate(fl[i], avoid)
            /\ (best = 0 \/ Dist2(fl[i], x, y) > best_d2)
         THEN NearestLoopFarthest(fl, i + 1, x, y, avoid, i, Dist2(fl[i], x, y))
         ELSE NearestLoopFarthest(fl, i + 1, x, y, avoid, best, best_d2)

\* The loop of reserve_nearest from list index i on: best is the index of the
\* best flower so far (0 = None), best_d2 its squared distance
RECURSIVE NearestLoop(_, _, _, _, _, _, _)
NearestLoop(fl, i, x, y, avoid, best, best_d2) ==
    IF i > Len(fl) THEN best
    ELSE IF Candidate(fl[i], avoid)
            /\ (best = 0 \/ Dist2(fl[i], x, y) < best_d2)
         THEN NearestLoop(fl, i + 1, x, y, avoid, i, Dist2(fl[i], x, y))
         ELSE NearestLoop(fl, i + 1, x, y, avoid, best, best_d2)

\* FlowerField.reserve_nearest(x, y, avoid_ids): the field afterwards and the
\* id of the flower returned (0 = None)
ReserveNearest(fl, x, y, avoid) ==
    LET best == NearestLoop(fl, 1, x, y, avoid, 0, 0)
    IN  IF best # 0
        THEN [flowers |-> [fl EXCEPT ![best].reserved = TRUE], ret |-> fl[best].id]
        ELSE [flowers |-> fl, ret |-> 0]

\* index of the first flower with the given id, 0 when there is none
RECURSIVE FindIndex(_, _, _)
FindIndex(fl, i, flower_id) ==
    IF i > Len(fl) THEN 0
    ELSE IF fl[i].id = flower_id THEN i
    ELSE FindIndex(fl, i + 1, flower_id)

\* collect_from that clears the reservation only when something was obtained
CollectFromKeepLockOnZero(fl, flower_id, amount) ==
    LET i == FindIndex(fl, 1, flower_id)
    IN  IF i = 0 THEN [flowers |-> fl, ret |-> 0]
        ELSE LET got == Min(amount, Max(0, fl[i].nectar))
             IN  [flowers |-> [fl EXCEPT ![i].nectar = @ - got,
                                         ![i].ever_visited = (@ \/ got > 0),
                                         ![i].reserved = (@ /\ got = 0)],
                  ret |-> got]

\* collect_from that hands out the requested amount without looking at the nectar
CollectFromUnclamped(fl, flower_id, amount) ==
    LET i == FindIndex(fl, 1, flower_id)
    IN  IF i = 0 THEN [flowers |-> fl, ret |-> 0]
        ELSE [flowers |-> [fl EXCEPT ![i].nectar = @ - amount,
                                     ![i].ever_visited = (@ \/ amount > 0),
                                     ![i].reserved = FALSE],
              ret |-> amount]

\* FlowerField.collect_from(flower_id, amount): the field afterwards and the
\* amount obtained
CollectFrom(fl, flower_id, amount) ==
    LET i == FindIndex(fl, 1, flower_id)
    IN  IF i = 0 THEN [flowers |-> fl, ret |-> 0]
        ELSE LET got == Min(amount, Max(0, fl[i].nectar))
             IN  [flowers |-> [fl EXCEPT ![i].nectar = @ - got,
                                         ![i].ever_visited = (@ \/ got > 0),
                                         ![i].reserved = FALSE],
                  ret |-> got]

\* release_reservation that flips the flag instead of clearing it
ReleaseReservationToggle(fl, flower_id) ==
    LET i == FindIndex(fl, 1, flower_id)
    IN  IF i = 0 THEN fl ELSE [fl EXCEPT ![i].reserved = ~@]

\* FlowerField.release_reservation(flower_id)
ReleaseReservation(fl, flower_id) ==
    LET i == FindIndex(fl, 1, flower_id)
    IN  IF i = 0 THEN fl ELSE [fl EXCEPT ![i].reserved = FALSE]

\* FlowerField.get(flower_id): index of the flower, 0 = None
GetFlower(fl, flower_id) == FindIndex(fl, 1, flower_id)

\* FlowerField.remaining()
Remaining(fl) == Cardinality({i \in 1..Len(fl) : Available(fl[i])})

-----------------------------------------------------------------------------
(* world.py: World geometry *)

\* SimController(width, height): the arena, scaled down from 960 x 540
Width == 392
Height == 300

\* World.__init__: hive = (width * 0.5, height * 0.55), radius = min(w, h) * 0.12
HiveX == Width \div 2
HiveY == (Height * 55) \div 100
HiveRadius == (Min(Width, Height) * 12) \div 100

-----------------------------------------------------------------------------
(* The flower field driven through its public calls *)

\* x positions callers ask from; flower i is planted at FlowerX(i), all on
\* the row through the hive
FieldXs == {100, 196, 292}
FieldYs == {HiveY}

FlowerX(i) == <<100, 292, 196, 100>>[i]

FlowerY(i) == HiveY

\* _new_flower: nectar uniform(0.8, cap), cap uniform(2.0, 6.0),
\* regen_rate uniform(0.1, 0.3) per second; ids are handed out 1, 2, ... in
\* list order
NewFlower(id, x, y, nectar) ==
    [id |-> id, x |-> x, y |-> y, nectar |-> nectar, cap |-> 40,
     regen_rate |-> 4, reserved |-> FALSE, ever_visited |-> FALSE]

InitNectars == {16, 40}

\* FlowerField.__init__ / add_patch: the fields a fresh simulation can start with
FreshFields ==
    {fl \in [1..NumFlowers -> UNION {{NewFlower(i, FlowerX(i), FlowerY(i), n) :
                                          n \in InitNectars} : i \in 1..NumFlowers}] :
        \A i \in 1..NumFlowers : fl[i].id = i}

\* pre_reserved: whether the flower named by the call was reserved before it
NoFop == [name |-> "init", id |-> 0, amount |-> 0, x |-> 0, y |-> 0, avoid |-> {},
          dt |-> 0, ret |-> 0, pre_reserved |-> FALSE]

WasReserved(fl, flower_id) ==
    LET i == FindIndex(fl, 1, flower_id) IN i # 0 /\ fl[i].reserved

FieldIds == 1..(NumFlowers + 1)
Amounts == {0, 16}
FieldDts == {0, 100}

CallReserveNearest ==
    \E x \in FieldXs, y \in FieldYs, avoid \in SUBSET (1..NumFlowers) :
        LET r == ReserveNearest(flowers, x, y, avoid)
        IN  /\ flowers' = r.flowers
            /\ fop' = [NoFop EXCEPT !.name = "reserve_nearest", !.x = x, !.y = y,
                                    !.avoid = avoid, !.ret = r.ret]
            /\ UNCHANGED <<roleVars, busVars, simVars>>

CallCollectFrom ==
    \E id \in FieldIds, amount \in Amounts :
        LET r == CollectFrom(flowers, id, amount)
        IN  /\ flowers' = r.flowers
            /\ fop' = [NoFop EXCEPT !.name = "collect_from", !.id = id,
                                    !.amount = amount, !.ret = r.ret,
                                    !.pre_reserved = WasReserved(flowers, id)]
            /\ UNCHANGED <<roleVars, busVars, simVars>>

CallReleaseReservation ==
    \E id \in FieldIds :
        /\ flowers' = ReleaseReservation(flowers, id)
        /\ fop' = [NoFop EXCEPT !.name = "release_reservation", !.id = id,
                                !.pre_reserved = WasReserved(flowers, id)]
        /\ UNCHANGED <<roleVars, busVars, simVars>>

CallFieldStep ==
    \E dt \in FieldDts :
        /\ flowers' = FieldStep(flowers, dt)
        /\ fop' = [NoFop EXCEPT !.name = "step", !.dt = dt]
        /\ UNCHANGED <<roleVars, busVars, simVars>>

-----------------------------------------------------------------------------
(* roles.py: RoleDrives and RolePolicy *)

\* candidates of RolePolicy.choose, in the order the loop visits them
Candidates == <<"forager", "receiver", "nurse", "fanner", "guard">>

Roles == {Candidates[i] : i \in 1..Len(Candidates)}

\* RolePolicy.__init__ defaults: hysteresis = 0.25, min_dwell = 3.0
Hysteresis == 25
MinDwell == 30

\* RolePolicy(): current = "forager", _dwell_t = 0.0
NewPolicy == [current |-> "forager", dwell_t |-> 0]

\* RoleDrives.score(role): getattr(self, role, 0.0)
Score(drives, role) == IF role \in DOMAIN drives THEN drives[role] ELSE 0

\* tick that counts every dt twice
PolicyTickDouble(p, dt) == [p EXCEPT !.dwell_t = @ + 2 * Max(0, dt)]

\* RolePolicy.tick(dt)
PolicyTick(p, dt) == [p EXCEPT !.dwell_t = @ + Max(0, dt)]

\* a force that lets the dwell timer run on
PolicyForceKeepDwell(p, role) == [current |-> role, dwell_t |-> p.dwell_t]

\* RolePolicy.force(role)
PolicyForce(p, role) == [current |-> role, dwell_t |-> 0]

\* the search loop of choose from candidate i on: the best role so far
RECURSIVE BestLoop(_, _, _, _)
BestLoop(drives, i, best, best_s) ==
    IF i > Len(Candidates) THEN best
    ELSE IF Score(drives, Candidates[i]) > best_s
         THEN BestLoop(drives, i + 1, Candidates[i], Score(drives, Candidates[i]))
         ELSE BestLoop(drives, i + 1, best, best_s)

\* choose that asks for strictly more than the margin
PolicyChooseStrictMargin(p, drives) ==
    LET best == BestLoop(drives, 1, p.current, Score(drives, p.current))
    IN  IF best # p.current /\ p.dwell_t >= MinDwell
           /\ Score(drives, best) > Score(drives, p.current) + Hysteresis
        THEN PolicyForce(p, best)
        ELSE p

\* RolePolicy.choose(drives): the policy afterwards (its current is the result)
PolicyChoose(p, drives) ==
    LET best == BestLoop(drives, 1, p.current, Score(drives, p.current))
    IN  IF best # p.current /\ p.dwell_t >= MinDwell
           /\ Score(drives, best) >= Score(drives, p.current) + Hysteresis
        THEN PolicyForce(p, best)
        ELSE p

-----------------------------------------------------------------------------
(* A RolePolicy driven through tick and choose with arbitrary drives *)

RoleDts == {-10, 0, 10, 25}
DriveVals == {0, 10, 35}
DriveVectors == [Roles -> DriveVals]

\* since: the time accumulated by tick calls since the last switch of role (or
\* since construction), kept apart from the policy's own timer
NoPop == [name |-> "init", dt |-> 0, drives |-> [r \in Roles |-> 0],
          pre |-> NewPolicy, since |-> 0]

CallTick ==
    \E dt \in RoleDts :
        /\ policy.dwell_t + Max(0, dt) <= MaxDwell
        /\ policy' = PolicyTick(policy, dt)
        /\ pop' = [NoPop EXCEPT !.name = "tick", !.dt = dt, !.pre = policy,
                                !.since = pop.since + (IF dt > 0 THEN dt ELSE 0)]
        /\ UNCHANGED <<role_drives, dop, fieldVars, busVars, simVars>>

CallChoose ==
    \E drives \in DriveVectors :
        /\ policy' = PolicyChoose(policy, drives)
        /\ pop' = [NoPop EXCEPT !.name = "choose", !.drives = drives, !.pre = policy,
                                !.since = IF policy'.current # policy.current
                                          THEN 0 ELSE pop.since]
        /\ UNCHANGED <<role_drives, dop, fieldVars, busVars, simVars>>

-----------------------------------------------------------------------------
(* roles.py: RoleDrives; behaviors/communication.py: drives_from_senses *)
(* Here a drive is in units of 0.001, a weight in units of 0.05, a sensed  *)
(* strength in units of 0.2 and dt in units of 0.1 s, so that              *)
(* weight * strength * dt is a whole number of drive units.                *)

\* RoleDrives(): every drive 0.0
NewDrives == [r \in Roles |-> 0]

\* a decay that takes off a tenth of what is left, rounded down
DrivesDecayTenth(d, kdt, dt) ==
    IF dt <= 0 THEN d ELSE [r \in Roles |-> Max(0, d[r] - d[r] \div 10)]

\* RoleDrives.decay(k, dt), kdt = k * dt in drive units
DrivesDecay(d, kdt, dt) ==
    IF dt <= 0 THEN d ELSE [r \in Roles |-> Max(0, d[r] - kdt)]

\* WEIGHTS: from sensed kinds to drive deltas per role
WEIGHTS ==
    [forager  |-> [waggle |-> 18, round |-> 10, brood |-> -6, forager_primer |-> -6,
                   tremble |-> -8, stop |-> -16, queen_mandibular |-> 1],
     receiver |-> [tremble |-> 16, brood |-> 4, forager_primer |-> 4],
     nurse    |-> [brood |-> 18, forager_primer |-> 6, queen_mandibular |-> 2],
     fanner   |-> [nasonov |-> 14, thermal |-> 6, queen_mandibular |-> 2],
     guard    |-> [alarm |-> 20, queen_mandibular |-> -2]]

\* k_decay = 0.15 per second: 0.015 per 0.1 s
KDecay == 15

\* the bounds of the clamp of a drive: 0.0 and 5.0
DriveMin == 0
DriveMax == 5000

\* senses.get(kind, 0.0)
SenseOf(senses, kind) == IF kind \in DOMAIN senses THEN senses[kind] ELSE 0

\* accum(role, kind, w)
Accum(senses, kind, w, dt) ==
    LET v == SenseOf(senses, kind) IN IF v <= 0 THEN 0 ELSE w * v * dt

\* delta of one role: the sum of accum over the kinds of its table
RECURSIVE DeltaOver(_, _, _, _)
DeltaOver(table, kinds, senses, dt) ==
    IF kinds = {} THEN 0
    ELSE LET k == CHOOSE kk \in kinds : TRUE
         IN  Accum(senses, k, table[k], dt) + DeltaOver(table, kinds \ {k}, senses, dt)

\* getattr(drives, role) + delta, after the decay
RawDrive(d, senses, dt, role) ==
    DrivesDecay(d, KDecay * dt, dt)[role]
        + DeltaOver(WEIGHTS[role], DOMAIN WEIGHTS[role], senses, dt)

\* drives_from_senses without the upper bound of the clamp
DrivesFromSensesNoCeiling(d, senses, dt) ==
    [r \in Roles |-> Max(DriveMin, RawDrive(d, senses, dt, r))]

\* drives_from_senses(drives, senses, dt)
DrivesFromSenses(d, senses, dt) ==
    [r \in Roles |-> Max(DriveMin, Min(DriveMax, RawDrive(d, senses, dt, r)))]

-----------------------------------------------------------------------------
(* A RoleDrives driven through decay and drives_from_senses *)

\* sensed strengths: nothing; recruitment dances; a congested, brood-rich
\* hive; an alarm, with a negative entry and a kind no role weighs
SenseInputs ==
    { [k \in {} |-> 0],
      [waggle |-> 5, round |-> 5],
      [tremble |-> 10, brood |-> 5, stop |-> 10],
      [alarm |-> 50, queen_mandibular |-> 50, nasonov |-> -5, shake |-> 5] }

DriveDts == {-10, 0, 10, 40}

\* dop.n counts the updates made, at most MaxUpdates
NoDop == [name |-> "init", senses |-> [k \in {} |-> 0], dt |-> 0, pre |-> NewDrives,
          n |-> 0]

CallDecay ==
    \E dt \in DriveDts :
        /\ dop.n < MaxUpdates
        /\ role_drives' = DrivesDecay(role_drives, KDecay * dt, dt)
        /\ dop' = [NoDop EXCEPT !.name = "decay", !.dt = dt, !.pre = role_drives,
                                !.n = dop.n + 1]
        /\ UNCHANGED <<policy, pop, fieldVars, busVars, simVars>>

CallDrivesFromSenses ==
    \E senses \in SenseInputs, dt \in DriveDts :
        /\ dop.n < MaxUpdates
        /\ role_drives' = DrivesFromSenses(role_drives, senses, dt)
        /\ dop' = [NoDop EXCEPT !.name = "drives_from_senses", !.senses = senses,
                                !.dt = dt, !.pre = role_drives, !.n = dop.n + 1]
        /\ UNCHANGED <<policy, pop, fieldVars, busVars, simVars>>

-----------------------------------------------------------------------------
(* signals.py: Signal *)

\* floor(i * m / 1000) for an intensity i and a factor m in thousandths,
\* split so that the product stays within 32 bits
MulMilli(i, m) == (i \div 1000) * m + ((i % 1000) * m) \div 1000

\* math.exp(-p / 1000) in thousandths, rounded down, tabulated at the
\* multiples of 0.5 and at 0.35, a waggle's decay over one tick (p is
\* decay * dt: decay in 0.01/s, dt in 0.1 s); for a negative p the reciprocal
\* of the value at -p
RECURSIVE ExpNegMilli(_)
ExpNegMilli(p) ==
    CASE p = 0 -> 1000
      [] p < 0 -> 1000000 \div ExpNegMilli(-p)
      [] p = 350 -> 704
      [] p = 500 -> 606
      [] p = 1000 -> 367
      [] p = 1500 -> 223
      [] p = 2000 -> 135
      [] p = 2500 -> 82
      [] p = 3000 -> 49
      [] p > 3000 -> (49 * ExpNegMilli(p - 3000)) \div 1000

\* the tenth of the radius the squared distance d2 falls in: floor(10 * d / radius)
Tenth(d2, radius) ==
    CHOOSE k \in 0..9 : (k * radius) * (k * radius) <= 100 * d2
                        /\ 100 * d2 < ((k + 1) * radius) * ((k + 1) * radius)

\* 0.5 * (1 + cos(pi * t)) in thousandths at t = k / 10, rounded down
CosFalloffMilli(k) == <<1000, 975, 904, 793, 654, 500, 345, 206, 95, 24>>[k + 1]

\* a falloff that grows with the distance
FalloffRising(sig, px, py, eps) ==
    LET d2 == (px - sig.x) * (px - sig.x) + (py - sig.y) * (py - sig.y)
    IN  IF d2 >= sig.radius * sig.radius \/ sig.radius <= eps THEN 0
        ELSE 1000 - CosFalloffMilli(Tenth(d2, sig.radius))

\* Signal.falloff(px, py) in thousandths, for lengths in a unit in which the
\* cutoff of the radius, 1e-6, is eps
FalloffEps(sig, px, py, eps) ==
    LET d2 == (px - sig.x) * (px - sig.x) + (py - sig.y) * (py - sig.y)
    IN  IF d2 >= sig.radius * sig.radius \/ sig.radius <= eps THEN 0
        ELSE CosFalloffMilli(Tenth(d2, sig.radius))

\* Signal.strength_at(px, py), lengths in that unit
StrengthAtEps(sig, px, py, eps) == MulMilli(sig.intensity, FalloffEps(sig, px, py, eps))

\* Signal.falloff(px, py) in thousandths, lengths in whole pixels: a radius
\* of at most 1e-6 is a radius of at most 0
Falloff(sig, px, py) == FalloffEps(sig, px, py, 0)

\* Signal.strength_at(px, py)
StrengthAt(sig, px, py) == MulMilli(sig.intensity, Falloff(sig, px, py))

\* step without the early return for dt <= 0
SignalStepAnyDt(sig, dt) ==
    [sig EXCEPT !.intensity = MulMilli(@, ExpNegMilli(Max(0, sig.decay) * dt)),
                !.ttl = @ - dt]

\* step that takes the decay rate as it is, negative rates included
SignalStepRawDecay(sig, dt) ==
    IF dt <= 0 THEN sig
    ELSE [sig EXCEPT !.intensity = MulMilli(@, ExpNegMilli(sig.decay * dt)),
                     !.ttl = @ - dt]

\* Signal.step(dt)
SignalStep(sig, dt) ==
    IF dt <= 0 THEN sig
    ELSE [sig EXCEPT !.intensity = MulMilli(@, ExpNegMilli(Max(0, sig.decay) * dt)),
                     !.ttl = @ - dt]

\* the epsilon of Signal.alive, 1e-6
IntensityEps == 1

\* alive that lets a signal live through the tick its ttl reaches zero
AliveAtZero(sig) == sig.ttl >= 0 /\ sig.intensity > IntensityEps

\* Signal.alive
Alive(sig) == sig.ttl > 0 /\ sig.intensity > IntensityEps

-----------------------------------------------------------------------------
(* signals.py: SignalBus *)

Range(q) == {q[i] : i \in 1..Len(q)}

\* SignalBus.__init__
NewBus == [heap |-> <<>>, signals |-> <<>>, by_kind |-> <<>>]

\* dict.get(k, [])
KindList(b, k) == IF k \in DOMAIN b.by_kind THEN b.by_kind[k] ELSE <<>>

\* SignalBus.emit(sig): sig becomes heap object Len(heap) + 1
BusEmit(b, sig) ==
    LET u == Len(b.heap) + 1
    IN  [heap |-> Append(b.heap, sig),
         signals |-> Append(b.signals, u),
         by_kind |-> [k \in (DOMAIN b.by_kind) \cup {sig.kind} |->
                         IF k = sig.kind THEN Append(KindList(b, k), u)
                         ELSE b.by_kind[k]]]

\* step that prunes the list but leaves the per-kind index as it was
BusStepStaleIndex(b, dt) ==
    IF b.signals = <<>> THEN b
    ELSE LET stepped == [u \in DOMAIN b.heap |->
                            IF u \in Range(b.signals) THEN SignalStep(b.heap[u], dt)
                            ELSE b.heap[u]]
             alive == SelectSeq(b.signals, LAMBDA u : Alive(stepped[u]))
         IN  [heap |-> stepped, signals |-> alive, by_kind |-> b.by_kind]

\* SignalBus.step(dt)
BusStep(b, dt) ==
    IF b.signals = <<>> THEN b
    ELSE LET stepped == [u \in DOMAIN b.heap |->
                            IF u \in Range(b.signals) THEN SignalStep(b.heap[u], dt)
                            ELSE b.heap[u]]
             alive == SelectSeq(b.signals, LAMBDA u : Alive(stepped[u]))
         IN  [heap |-> stepped,
              signals |-> alive,
              by_kind |-> [k \in {stepped[u].kind : u \in Range(alive)} |->
                              SelectSeq(alive, LAMBDA u : stepped[u].kind = k)]]

\* the pool of strongest and query: kinds is [none |-> TRUE] for None, else
\* [none |-> FALSE, list |-> the kinds in iteration order]
RECURSIVE PoolOf(_, _, _)
PoolOf(b, list, i) ==
    IF i > Len(list) THEN <<>>
    ELSE KindList(b, list[i]) \o PoolOf(b, list, i + 1)

Pool(b, kinds) == IF kinds.none THEN b.signals ELSE PoolOf(b, kinds.list, 1)

\* the loop of strongest from pool index i on
RECURSIVE StrongestLoop(_, _, _, _, _, _, _)
StrongestLoop(b, pool, i, x, y, best, best_val) ==
    IF i > Len(pool) THEN best
    ELSE LET val == StrengthAt(b.heap[pool[i]], x, y)
         IN  IF val > best_val
             THEN StrongestLoop(b, pool, i + 1, x, y, pool[i], val)
             ELSE StrongestLoop(b, pool, i + 1, x, y, best, best_val)

\* a strongest that stops at the first signal of the pool felt at the point
BusStrongestFirstFelt(b, x, y, kinds) ==
    LET pool == Pool(b, kinds)
        felt == SelectSeq(pool, LAMBDA u : StrengthAt(b.heap[u], x, y) > 0)
    IN  IF felt = <<>> THEN 0 ELSE felt[1]

\* SignalBus.strongest(x, y, kinds): the signal's heap index, 0 = None
BusStrongest(b, x, y, kinds) == StrongestLoop(b, Pool(b, kinds), 1, x, y, 0, 0)

\* list.sort(key = val, reverse = True): stable, equal values keep their order
RECURSIVE InsertDesc(_, _)
InsertDesc(sorted, e) ==
    IF sorted = <<>> THEN <<e>>
    ELSE IF Head(sorted).val >= e.val
         THEN <<Head(sorted)>> \o InsertDesc(Tail(sorted), e)
         ELSE <<e>> \o sorted

RECURSIVE SortDesc(_, _, _)
SortDesc(scored, i, acc) ==
    IF i > Len(scored) THEN acc
    ELSE SortDesc(scored, i + 1, InsertDesc(acc, scored[i]))

\* a query that truncates before it sorts
BusQueryUnsorted(b, x, y, kinds, min_strength, limit) ==
    LET pool == Pool(b, kinds)
        all == [i \in 1..Len(pool) |->
                   [sig |-> pool[i], val |-> StrengthAt(b.heap[pool[i]], x, y)]]
        scored == SelectSeq(all, LAMBDA e : e.val >= min_strength)
    IN  IF limit > 0 THEN SubSeq(scored, 1, Min(limit, Len(scored))) ELSE scored

\* SignalBus.query(x, y, kinds, min_strength, limit): (signal, strength) pairs,
\* strongest first
BusQuery(b, x, y, kinds, min_strength, limit) ==
    LET pool == Pool(b, kinds)
        all == [i \in 1..Len(pool) |->
                   [sig |-> pool[i], val |-> StrengthAt(b.heap[pool[i]], x, y)]]
        scored == SelectSeq(all, LAMBDA e : e.val >= min_strength)
        sorted == SortDesc(scored, 1, <<>>)
    IN  IF limit > 0 THEN SubSeq(sorted, 1, Min(limit, Len(sorted))) ELSE sorted

\* SignalBus.counts()
BusCounts(b) == [k \in DOMAIN b.by_kind |-> Len(b.by_kind[k])]

-----------------------------------------------------------------------------
(* A SignalBus driven through emit, step and its queries *)

\* Signal(...) as the emitters build it
NewSignal(kind, x, y, radius, intensity, decay, ttl, source_id, payload) ==
    [kind |-> kind, x |-> x, y |-> y, radius |-> radius, intensity |-> intensity,
     decay |-> decay, ttl |-> ttl, source_id |-> source_id, payload |-> payload]

\* the signals emitted: one that never decays and dies of its ttl (as in
\* test_signal_decay_and_ttl), one that fades long before its ttl, one that
\* decays and dies of its ttl, one with a negative radius and a negative
\* decay rate
EmitSet ==
    { NewSignal("waggle", 0, 0, 40, 1000000, 0, 5, 1, <<>>),
      NewSignal("waggle", 0, 0, 40, 30, 500, 20, 1, <<>>),
      NewSignal("tremble", 0, 0, 40, 2000000, 500, 8, 2, <<>>),
      NewSignal("round", 0, 0, -40, 1000000, -500, 5, 3, <<>>) }

BusDts == {-2, 0, 2, 6}
QueryXs == {0, 20, 40}
QueryKinds == { [none |-> TRUE, list |-> <<>>],
                [none |-> FALSE, list |-> <<"waggle">>],
                [none |-> FALSE, list |-> <<"tremble", "waggle">>],
                [none |-> FALSE, list |-> <<"waggle", "round", "waggle">>] }
QueryLimits == {0, 1, 16}

\* min_strength default of query, 0.05
DefaultMinStrength == 50000

\* min_strength values asked for: none, the default, above one unit
QueryMins == {0, DefaultMinStrength, 1500000}

NoBop == [name |-> "init", dt |-> 0, x |-> 0, kinds |-> [none |-> TRUE, list |-> <<>>],
          min_strength |-> 0, limit |-> 0, ret |-> <<>>]

NewHist(sig) == [ttl0 |-> sig.ttl, elapsed |-> 0, faded |-> FALSE, removed |-> FALSE]

\* the history after a step from bus b to bus nb with dt
HistAfterStep(h, b, nb, dt) ==
    [u \in DOMAIN h |->
        IF u \in Range(b.signals)
        THEN [h[u] EXCEPT !.elapsed = @ + (IF dt > 0 THEN dt ELSE 0),
                          !.faded = (@ \/ nb.heap[u].intensity <= 1),
                          !.removed = (@ \/ u \notin Range(nb.signals))]
        ELSE h[u]]

CallEmit ==
    \E sig \in EmitSet :
        /\ Len(bus.heap) < MaxEmits
        /\ bus' = BusEmit(bus, sig)
        /\ hist' = Append(hist, NewHist(sig))
        /\ bop' = [NoBop EXCEPT !.name = "emit"]
        /\ UNCHANGED <<fieldVars, roleVars, simVars>>

CallBusStep ==
    \E dt \in BusDts :
        /\ bus' = BusStep(bus, dt)
        /\ hist' = HistAfterStep(hist, bus, bus', dt)
        /\ bop' = [NoBop EXCEPT !.name = "step", !.dt = dt]
        /\ UNCHANGED <<fieldVars, roleVars, simVars>>

CallQuery ==
    \E x \in QueryXs, kinds \in QueryKinds, min \in QueryMins, limit \in QueryLimits :
        /\ bop' = [NoBop EXCEPT !.name = "query", !.x = x, !.kinds = kinds,
                                !.min_strength = min, !.limit = limit,
                                !.ret = BusQuery(bus, x, 0, kinds, min, limit)]
        /\ UNCHANGED <<bus, hist, fieldVars, roleVars, simVars>>

CallStrongest ==
    \E x \in QueryXs, kinds \in QueryKinds :
        /\ bop' = [NoBop EXCEPT !.name = "strongest", !.x = x, !.kinds = kinds,
                                !.ret = LET u == BusStrongest(bus, x, 0, kinds)
                                        IN  IF u = 0 THEN <<>>
                                            ELSE <<[sig |-> u,
                                                    val |-> StrengthAt(bus.heap[u], x, 0)]>>]
        /\ UNCHANGED <<bus, hist, fieldVars, roleVars, simVars>>

-----------------------------------------------------------------------------
(* One Signal asked for its strength along a line through its centre, with  *)
(* lengths in units of 1e-6 pixel, the cutoff of Signal.falloff              *)

\* the cutoff of falloff, radius <= 1e-6
RadiusEps == 1

StrengthRadii == {1, 2, 10, 20}
StrengthIntensities == {-1000000, 0, 1000000, 2500000}
StrengthXs == 0..21

StrengthSignals ==
    {NewSignal("waggle", 0, 0, r, i, 35, 60, 1, <<>>) :
        r \in StrengthRadii, i \in StrengthIntensities}

CallStrengthAt ==
    \E x \in StrengthXs :
        /\ bop' = [NoBop EXCEPT !.name = "strength_at", !.x = x,
                                !.ret = <<[sig |-> 1,
                                          val |-> StrengthAtEps(bus.heap[1], x, 0, RadiusEps)]>>]
        /\ UNCHANGED <<bus, hist, fieldVars, roleVars, simVars>>

-----------------------------------------------------------------------------
(* bee.py, worker.py: WorkerBee *)
(* All positions lie on the row y = HiveY through the hive, so a position  *)
(* is its x and every hypot is an absolute difference; of the velocity the *)
(* x component vx is kept, in pixels per second. Heading and flash_timer   *)
(* are left out: nothing modelled here reads them.                         *)

SPEED_MIN == 40
SPEED_MAX == 120
VISIT_QUANTA == 16
AVOID_MEMORY == 16
WAGGLE_THRESHOLD == 20
WAGGLE_TTL == 60

\* WorkerBee.__init__: capacity = 3.0
Capacity == 60

\* arrival radius at a flower, dist < 10.0
ArrivalRadius == 10

Abs(a) == IF a >= 0 THEN a ELSE -a

\* WorkerBee(id, x, y, vx, vy)
NewWorker(id, x) ==
    [id |-> id, x |-> x, vx |-> 0, state |-> "wander", target_flower_id |-> 0, carry |-> 0,
     capacity |-> Capacity, avoid |-> <<>>, recruit_target |-> <<>>,
     last_flower_xy |-> <<>>, policy |-> NewPolicy, role |-> "forager"]

\* a _go_towards that heads away from the point
GoTowardsAway(w, tx, dt, scale10) ==
    LET dir == IF tx - w.x >= 0 THEN -1 ELSE 1
        speed == (SPEED_MIN + SPEED_MAX) * scale10
    IN  [w EXCEPT !.vx = dir * (speed \div 10),
                  !.x = @ + dir * ((speed * dt) \div 100)]

\* WorkerBee._go_towards(x, y, dt, speed_scale) along the row: atan2(0, dx) is
\* 0 for dx >= 0 and pi for dx < 0; scale10 is speed_scale in tenths
GoTowards(w, tx, dt, scale10) ==
    LET dir == IF tx - w.x >= 0 THEN 1 ELSE -1
        speed == (SPEED_MIN + SPEED_MAX) * scale10
    IN  [w EXCEPT !.vx = dir * (speed \div 10),
                  !.x = @ + dir * ((speed * dt) \div 100)]

\* Bee._clamp
Clamp(w) == [w EXCEPT !.x = Max(4, Min(Width - 4, @))]

\* the x displacements Bee._random_walk(dt) is drawn from: the walk moves
\* 20..60 pixels per second in a random direction, and the draws kept here
\* are the walks across the row
WalkXs == {0}

RandomWalkXs(dt) == {d \in WalkXs : Abs(d) * 10 <= 60 * dt}

\* Bee._random_walk: a walk that displaces x by rw in dt has vx = rw / dt
RandomWalk(w, dt, rw) ==
    [w EXCEPT !.vx = IF dt > 0 THEN (rw * 10) \div dt ELSE 0, !.x = @ + rw]

\* Bee.step(dt): random walk by rw, then clamp
BeeStep(w, dt, rw) == Clamp(RandomWalk(w, dt, rw))

\* WorkerBee._inside_hive
InsideHive(w) == Abs(w.x - HiveX) <= HiveRadius + 5

\* carry + 1e-6 < capacity, compared in millionths of a nectar unit
HasSpare(w) == w.carry * 50000 + 1 < w.capacity * 50000

\* a memory that grows without bound
AvoidAppendUnbounded(av, id) == Append(av, id)

\* deque(maxlen = AVOID_MEMORY).append
AvoidAppend(av, id) ==
    IF Len(av) >= AVOID_MEMORY THEN Append(Tail(av), id) ELSE Append(av, id)

\* the world as a behaviour routine sees and leaves it, with the worker
\* asked lists what the routine's reserve_nearest calls returned, in call order
Outcome(w, fl, b, dep) ==
    [w |-> w, flowers |-> fl, bus |-> b, deposited |-> dep, asked |-> <<>>]

\* the outcome of a routine that has called reserve_nearest and got ret
Asked(o, ret) == [o EXCEPT !.asked = Append(@, ret)]

\* a wander that asks the field a second time when the first call fails
BehaveWanderAskTwice(w, fl, b, dep, dt, rw) ==
    LET u == BusStrongest(b, w.x, HiveY, [none |-> FALSE, list |-> <<"waggle">>])
        w1 == IF InsideHive(w) /\ u # 0 /\ b.heap[u].payload # <<>>
              THEN [w EXCEPT !.recruit_target = b.heap[u].payload]
              ELSE w
    IN  IF HasSpare(w1) /\ Remaining(fl) > 0
        THEN LET w2 == IF w1.recruit_target # <<>>
                       THEN GoTowards(w1, w1.recruit_target[1], dt \div 2, 9)
                       ELSE w1
                 r == ReserveNearest(fl, w2.x, HiveY, Range(w2.avoid))
             IN  IF r.ret # 0
                 THEN Asked(Outcome([w2 EXCEPT !.target_flower_id = r.ret,
                                               !.state = "to_flower",
                                               !.recruit_target = <<>>],
                                    r.flowers, b, dep), r.ret)
                 ELSE LET r2 == ReserveNearest(fl, w2.x, HiveY, Range(w2.avoid))
                      IN  Asked(Asked(Outcome(BeeStep(w2, dt, rw), fl, b, dep), r.ret),
                                r2.ret)
        ELSE Outcome(BeeStep(w1, dt, rw), fl, b, dep)

\* a wander that heads for the hive when the field has no flower for it
BehaveWanderGiveUp(w, fl, b, dep, dt, rw) ==
    LET u == BusStrongest(b, w.x, HiveY, [none |-> FALSE, list |-> <<"waggle">>])
        w1 == IF InsideHive(w) /\ u # 0 /\ b.heap[u].payload # <<>>
              THEN [w EXCEPT !.recruit_target = b.heap[u].payload]
              ELSE w
    IN  IF HasSpare(w1) /\ Remaining(fl) > 0
        THEN LET w2 == IF w1.recruit_target # <<>>
                       THEN GoTowards(w1, w1.recruit_target[1], dt \div 2, 9)
                       ELSE w1
                 r == ReserveNearest(fl, w2.x, HiveY, Range(w2.avoid))
             IN  IF r.ret # 0
                 THEN Asked(Outcome([w2 EXCEPT !.target_flower_id = r.ret,
                                               !.state = "to_flower",
                                               !.recruit_target = <<>>],
                                    r.flowers, b, dep), r.ret)
                 ELSE Asked(Outcome([w2 EXCEPT !.state = "to_hive"], fl, b, dep), r.ret)
        ELSE Outcome(BeeStep(w1, dt, rw), fl, b, dep)

\* a wander that takes the waggle it follows out of the bus
BehaveWanderConsume(w, fl, b, dep, dt, rw) ==
    LET u == BusStrongest(b, w.x, HiveY, [none |-> FALSE, list |-> <<"waggle">>])
        w1 == IF InsideHive(w) /\ u # 0 /\ b.heap[u].payload # <<>>
              THEN [w EXCEPT !.recruit_target = b.heap[u].payload]
              ELSE w
        nb == IF w1 = w THEN b
              ELSE [b EXCEPT !.signals = SelectSeq(@, LAMBDA v : v # u)]
    IN  IF HasSpare(w1) /\ Remaining(fl) > 0
        THEN LET w2 == IF w1.recruit_target # <<>>
                       THEN GoTowards(w1, w1.recruit_target[1], dt \div 2, 9)
                       ELSE w1
                 r == ReserveNearest(fl, w2.x, HiveY, Range(w2.avoid))
             IN  IF r.ret # 0
                 THEN Asked(Outcome([w2 EXCEPT !.target_flower_id = r.ret,
                                               !.state = "to_flower",
                                               !.recruit_target = <<>>],
                                    r.flowers, nb, dep), r.ret)
                 ELSE Asked(Outcome(BeeStep(w2, dt, rw), fl, nb, dep), r.ret)
        ELSE Outcome(BeeStep(w1, dt, rw), fl, nb, dep)

\* _behave_forager, state "wander"
BehaveWander(w, fl, b, dep, dt, rw) ==
    LET u == BusStrongest(b, w.x, HiveY, [none |-> FALSE, list |-> <<"waggle">>])
        w1 == IF InsideHive(w) /\ u # 0 /\ b.heap[u].payload # <<>>
              THEN [w EXCEPT !.recruit_target = b.heap[u].payload]
              ELSE w
    IN  IF HasSpare(w1) /\ Remaining(fl) > 0
        THEN LET w2 == IF w1.recruit_target # <<>>
                       THEN GoTowards(w1, w1.recruit_target[1], dt \div 2, 9)
                       ELSE w1
                 r == ReserveNearest(fl, w2.x, HiveY, Range(w2.avoid))
             IN  IF r.ret # 0
                 THEN Asked(Outcome([w2 EXCEPT !.target_flower_id = r.ret,
                                               !.state = "to_flower",
                                               !.recruit_target = <<>>],
                                    r.flowers, b, dep), r.ret)
                 ELSE Asked(Outcome(BeeStep(w2, dt, rw), fl, b, dep), r.ret)
        ELSE Outcome(BeeStep(w1, dt, rw), fl, b, dep)

\* an arrival that turns to wander when the collection yields nothing
ArriveAtFlowerWanderOnZero(w, fl, b, dep, i) ==
    LET c == CollectFrom(fl, fl[i].id, Min(VISIT_QUANTA, w.capacity - w.carry))
        w1 == IF c.ret > 0
              THEN [w EXCEPT !.carry = @ + c.ret,
                             !.avoid = AvoidAppend(@, fl[i].id),
                             !.last_flower_xy = <<fl[i].x, fl[i].y>>]
              ELSE [w EXCEPT !.carry = @ + c.ret]
        r == ReserveNearest(c.flowers, w1.x, HiveY, Range(w1.avoid))
    IN  IF c.ret <= 0
        THEN Outcome([w1 EXCEPT !.target_flower_id = 0, !.state = "wander"],
                     c.flowers, b, dep)
        ELSE IF HasSpare(w1) /\ Remaining(c.flowers) > 0
        THEN IF r.ret # 0
             THEN Asked(Outcome([w1 EXCEPT !.target_flower_id = r.ret,
                                           !.state = "to_flower"],
                                r.flowers, b, dep), r.ret)
             ELSE Asked(Outcome([w1 EXCEPT !.target_flower_id = 0, !.state = "to_hive"],
                                c.flowers, b, dep), r.ret)
        ELSE Outcome([w1 EXCEPT !.target_flower_id = 0, !.state = "to_hive"],
                     c.flowers, b, dep)

\* an arrival that looks for a next flower even with a full crop
ArriveAtFlowerChainWhenFull(w, fl, b, dep, i) ==
    LET c == CollectFrom(fl, fl[i].id, Min(VISIT_QUANTA, w.capacity - w.carry))
        w1 == IF c.ret > 0
              THEN [w EXCEPT !.carry = @ + c.ret,
                             !.avoid = AvoidAppend(@, fl[i].id),
                             !.last_flower_xy = <<fl[i].x, fl[i].y>>]
              ELSE [w EXCEPT !.carry = @ + c.ret]
        r == ReserveNearest(c.flowers, w1.x, HiveY, Range(w1.avoid))
    IN  IF Remaining(c.flowers) > 0
        THEN IF r.ret # 0
             THEN Asked(Outcome([w1 EXCEPT !.target_flower_id = r.ret,
                                           !.state = "to_flower"],
                                r.flowers, b, dep), r.ret)
             ELSE Asked(Outcome([w1 EXCEPT !.target_flower_id = 0, !.state = "to_hive"],
                                c.flowers, b, dep), r.ret)
        ELSE Outcome([w1 EXCEPT !.target_flower_id = 0, !.state = "to_hive"],
                     c.flowers, b, dep)

\* _behave_forager, state "to_flower", on arrival at the flower with list index i
\* an arrival that asks the flower for a whole quantum whatever room is left
ArriveAtFlowerTakeQuanta(w, fl, b, dep, i) ==
    LET c == CollectFrom(fl, fl[i].id, VISIT_QUANTA)
        w1 == IF c.ret > 0
              THEN [w EXCEPT !.carry = @ + c.ret,
                             !.avoid = AvoidAppend(@, fl[i].id),
                             !.last_flower_xy = <<fl[i].x, fl[i].y>>]
              ELSE [w EXCEPT !.carry = @ + c.ret]
        r == ReserveNearest(c.flowers, w1.x, HiveY, Range(w1.avoid))
    IN  IF HasSpare(w1) /\ Remaining(c.flowers) > 0
        THEN IF r.ret # 0
             THEN Asked(Outcome([w1 EXCEPT !.target_flower_id = r.ret,
                                           !.state = "to_flower"],
                                r.flowers, b, dep), r.ret)
             ELSE Asked(Outcome([w1 EXCEPT !.target_flower_id = 0, !.state = "to_hive"],
                                c.flowers, b, dep), r.ret)
        ELSE Outcome([w1 EXCEPT !.target_flower_id = 0, !.state = "to_hive"],
                     c.flowers, b, dep)

\* an arrival that goes home with the identifier of the flower it left
ArriveAtFlowerKeepTarget(w, fl, b, dep, i) ==
    LET c == CollectFrom(fl, fl[i].id, Min(VISIT_QUANTA, w.capacity - w.carry))
        w1 == IF c.ret > 0
              THEN [w EXCEPT !.carry = @ + c.ret,
                             !.avoid = AvoidAppend(@, fl[i].id),
                             !.last_flower_xy = <<fl[i].x, fl[i].y>>]
              ELSE [w EXCEPT !.carry = @ + c.ret]
        r == ReserveNearest(c.flowers, w1.x, HiveY, Range(w1.avoid))
    IN  IF HasSpare(w1) /\ Remaining(c.flowers) > 0
        THEN IF r.ret # 0
             THEN Asked(Outcome([w1 EXCEPT !.target_flower_id = r.ret,
                                           !.state = "to_flower"],
                                r.flowers, b, dep), r.ret)
             ELSE Asked(Outcome([w1 EXCEPT !.state = "to_hive"],
                                c.flowers, b, dep), r.ret)
        ELSE Outcome([w1 EXCEPT !.state = "to_hive"], c.flowers, b, dep)

\* an arrival whose collection leaves the flower's lock in place
ArriveAtFlowerKeepLock(w, fl, b, dep, i) ==
    LET c0 == CollectFrom(fl, fl[i].id, Min(VISIT_QUANTA, w.capacity - w.carry))
        c == [c0 EXCEPT !.flowers[i].reserved = TRUE]
        w1 == IF c.ret > 0
              THEN [w EXCEPT !.carry = @ + c.ret,
                             !.avoid = AvoidAppend(@, fl[i].id),
                             !.last_flower_xy = <<fl[i].x, fl[i].y>>]
              ELSE [w EXCEPT !.carry = @ + c.ret]
        r == ReserveNearest(c.flowers, w1.x, HiveY, Range(w1.avoid))
    IN  IF HasSpare(w1) /\ Remaining(c.flowers) > 0
        THEN IF r.ret # 0
             THEN Asked(Outcome([w1 EXCEPT !.target_flower_id = r.ret,
                                           !.state = "to_flower"],
                                r.flowers, b, dep), r.ret)
             ELSE Asked(Outcome([w1 EXCEPT !.target_flower_id = 0, !.state = "to_hive"],
                                c.flowers, b, dep), r.ret)
        ELSE Outcome([w1 EXCEPT !.target_flower_id = 0, !.state = "to_hive"],
                     c.flowers, b, dep)

ArriveAtFlower(w, fl, b, dep, i) ==
    LET c == CollectFrom(fl, fl[i].id, Min(VISIT_QUANTA, w.capacity - w.carry))
        w1 == IF c.ret > 0
              THEN [w EXCEPT !.carry = @ + c.ret,
                             !.avoid = AvoidAppend(@, fl[i].id),
                             !.last_flower_xy = <<fl[i].x, fl[i].y>>]
              ELSE [w EXCEPT !.carry = @ + c.ret]
        r == ReserveNearest(c.flowers, w1.x, HiveY, Range(w1.avoid))
    IN  IF HasSpare(w1) /\ Remaining(c.flowers) > 0
        THEN IF r.ret # 0
             THEN Asked(Outcome([w1 EXCEPT !.target_flower_id = r.ret,
                                           !.state = "to_flower"],
                                r.flowers, b, dep), r.ret)
             ELSE Asked(Outcome([w1 EXCEPT !.target_flower_id = 0, !.state = "to_hive"],
                                c.flowers, b, dep), r.ret)
        ELSE Outcome([w1 EXCEPT !.target_flower_id = 0, !.state = "to_hive"],
                     c.flowers, b, dep)

\* a to_flower that gives up an invalid target without releasing it
BehaveToFlowerNoRelease(w, fl, b, dep, dt) ==
    LET i == IF w.target_flower_id # 0 THEN GetFlower(fl, w.target_flower_id) ELSE 0
    IN  IF i = 0 \/ ~Available(fl[i])
        THEN Outcome([w EXCEPT !.target_flower_id = 0, !.state = "wander"], fl, b, dep)
        ELSE IF Abs(fl[i].x - w.x) < ArrivalRadius
             THEN ArriveAtFlower(w, fl, b, dep, i)
             ELSE Outcome(GoTowards(w, fl[i].x, dt, 6), fl, b, dep)

\* _behave_forager, state "to_flower"
BehaveToFlower(w, fl, b, dep, dt) ==
    LET i == IF w.target_flower_id # 0 THEN GetFlower(fl, w.target_flower_id) ELSE 0
    IN  IF i = 0 \/ ~Available(fl[i])
        THEN Outcome([w EXCEPT !.target_flower_id = 0, !.state = "wander"],
                     IF w.target_flower_id # 0
                     THEN ReleaseReservation(fl, w.target_flower_id) ELSE fl,
                     b, dep)
        ELSE IF Abs(fl[i].x - w.x) < ArrivalRadius
             THEN ArriveAtFlower(w, fl, b, dep, i)
             ELSE Outcome(GoTowards(w, fl[i].x, dt, 6), fl, b, dep)

\* the waggle a delivery emits: intensity min(2.5, 0.8 + 0.4 * carry),
\* radius 40, decay 0.35
WaggleOf(w) ==
    NewSignal("waggle", HiveX, HiveY, 40, Min(2500000, 800000 + 20000 * w.carry),
              35, WAGGLE_TTL, w.id, w.last_flower_xy)

\* a deposit that books the delivery twice
DepositTwice(dep, nectar) == IF nectar > 0 THEN dep + 2 * nectar ELSE dep

\* World.deposit(nectar)
Deposit(dep, nectar) == IF nectar > 0 THEN dep + nectar ELSE dep

\* Hive.entrance_xy: the 12 o'clock point of the hive circle
EntranceXY == <<HiveX, HiveY - HiveRadius>>

\* a to_hive that advertises only a crop above the threshold
BehaveToHiveAbove(w, fl, b, dep, dt) ==
    IF Abs(HiveX - w.x) < HiveRadius + 10
    THEN IF w.carry > 0
         THEN Outcome([w EXCEPT !.carry = 0, !.state = "wander"], fl,
                      IF w.carry > WAGGLE_THRESHOLD /\ w.last_flower_xy # <<>>
                      THEN BusEmit(b, WaggleOf(w)) ELSE b,
                      Deposit(dep, w.carry))
         ELSE Outcome([w EXCEPT !.state = "wander"], fl, b, dep)
    ELSE Outcome(GoTowards(w, HiveX, dt, 6), fl, b, dep)

\* _behave_forager, state "to_hive"
BehaveToHive(w, fl, b, dep, dt) ==
    IF Abs(HiveX - w.x) < HiveRadius + 10
    THEN IF w.carry > 0
         THEN Outcome([w EXCEPT !.carry = 0, !.state = "wander"], fl,
                      IF w.carry >= WAGGLE_THRESHOLD /\ w.last_flower_xy # <<>>
                      THEN BusEmit(b, WaggleOf(w)) ELSE b,
                      Deposit(dep, w.carry))
         ELSE Outcome([w EXCEPT !.state = "wander"], fl, b, dep)
    ELSE Outcome(GoTowards(w, HiveX, dt, 6), fl, b, dep)

\* WorkerBee._behave_forager
BehaveForager(w, fl, b, dep, dt, rw) ==
    CASE w.state = "wander" -> BehaveWander(w, fl, b, dep, dt, rw)
      [] w.state = "to_flower" -> BehaveToFlower(w, fl, b, dep, dt)
      [] w.state = "to_hive" -> BehaveToHive(w, fl, b, dep, dt)
      [] OTHER -> Outcome(BeeStep(w, dt, rw), fl, b, dep)

\* WorkerBee._behave_nurse: rw is the displacement of a walk of dt * 0.4
BehaveNurse(w, fl, b, dep, dt, rw) ==
    IF Abs(w.x - HiveX) * 10 > HiveRadius * 6
    THEN Outcome(Clamp(GoTowards(w, HiveX, dt, 6)), fl, b, dep)
    ELSE Outcome(BeeStep(w, (dt * 4) \div 10,
                         IF rw \in RandomWalkXs((dt * 4) \div 10) THEN rw ELSE 0),
                 fl, b, dep)

\* behaviors/communication.py: SENSE_KEYS, SenseConfig.max_per_kind
SENSE_KEYS ==
    {"queen_mandibular", "brood", "forager_primer", "waggle", "round", "tremble",
     "shake", "stop", "nasonov", "alarm", "worker_piping", "queen_piping",
     "fanning", "thermal"}

MaxPerKind == 8

\* SignalBus.query's default limit
DefaultLimit == 16

\* sense_signals(x, y, world): the signals (heap indices) whose strength is
\* added into the senses: of bus.query(x, y, kinds = None), per kind in
\* SENSE_KEYS the first max_per_kind
SenseSignals(w, b) ==
    LET q == BusQuery(b, w.x, HiveY, [none |-> TRUE], DefaultMinStrength, DefaultLimit)
        kindOf(i) == b.heap[q[i].sig].kind
    IN  {q[i].sig : i \in {i \in 1..Len(q) :
            /\ kindOf(i) \in SENSE_KEYS
            /\ Cardinality({j \in 1..(i - 1) : kindOf(j) = kindOf(i)}) < MaxPerKind}}

\* the loop of sense_signals over the query result q from index i on: counts
\* and out are the dicts of the code, as functions on the kinds entered
RECURSIVE SenseLoop(_, _, _, _, _)
SenseLoop(b, q, i, counts, out) ==
    IF i > Len(q) THEN out
    ELSE LET k == b.heap[q[i].sig].kind
             c == IF k \in DOMAIN counts THEN counts[k] ELSE 0
         IN  IF k \notin SENSE_KEYS \/ c >= MaxPerKind
             THEN SenseLoop(b, q, i + 1, counts, out)
             ELSE SenseLoop(b, q, i + 1,
                     [j \in (DOMAIN counts) \cup {k} |-> IF j = k THEN c + 1 ELSE counts[j]],
                     [j \in (DOMAIN out) \cup {k} |->
                         IF j = k THEN SenseOf(out, k) + q[i].val ELSE out[j]])

\* sense_signals(x, y, world): the dict of summed strengths per kind
SenseResult(w, b) ==
    SenseLoop(b, BusQuery(b, w.x, HiveY, [none |-> TRUE], DefaultMinStrength, DefaultLimit),
              1, [k \in {} |-> 0], [k \in {} |-> 0])

\* the waggle a forager in wander inside the hive reads with
\* world.signals.strongest(x, y, kinds = {"waggle"}), as a set of heap indices
FollowedSignals(w, b) ==
    IF w.state = "wander" /\ InsideHive(w)
    THEN {BusStrongest(b, w.x, HiveY, [none |-> FALSE, list |-> <<"waggle">>])} \ {0}
    ELSE {}

\* the dwell timer is only ever compared with min_dwell: the simulation keeps
\* it from growing past that
SatDwell(p) == [p EXCEPT !.dwell_t = Min(@, MinDwell)]

\* WorkerBee.step(dt, ..., world): drives are the worker's drives after
\* drives_from_senses; rw is the random walk's draw. Only the forager and
\* nurse drives are ever raised here, so the role is one of those two.
StepWorker(w, fl, b, dep, dt, drives, rw) ==
    LET p == SatDwell(PolicyChoose(PolicyTick(w.policy, dt), drives))
        w1 == [w EXCEPT !.policy = p, !.role = p.current]
    IN  IF w1.role = "forager"
        THEN BehaveForager(w1, fl, b, dep, dt, rw)
        ELSE BehaveNurse(w1, fl, b, dep, dt, rw)

-----------------------------------------------------------------------------
(* api.py: SimController.step; one tick is WorldStep, then every worker *)

\* dt of a tick, 1.0 s
SimDt == 10

\* one step of a travelling forager at the tick length SimDt
StepLength == ((SPEED_MIN + SPEED_MAX) * 6 * SimDt) \div 100

\* _new_worker: x = rng.uniform(0, width); from 196 the flowers are a whole
\* number of steps away, from 148 half a step more
StartXs == {148, 196}

\* the drives a worker can be left with by its senses: the forager drive
\* ahead of the rest by more than the margin, or the nurse drive
SimDrives ==
    { [r \in Roles |-> IF r = "forager" THEN 35 ELSE 0],
      [r \in Roles |-> IF r = "nurse" THEN 35 ELSE 0] }

\* self.world.step(dt): the flowers regrow (weather and the queue average do
\* not reach the workers)
WorldStep ==
    /\ pending = {}
    /\ flowers' = FieldStep(flowers, SimDt)
    /\ pending' = DOMAIN workers
    /\ mark' = Len(bus.heap)
    /\ raised' = {}
    /\ asked' = [i \in DOMAIN workers |-> <<>>]
    /\ UNCHANGED <<fop, roleVars, busVars, workers, total_deposited, receiver_queue, hop>>

\* b.step(dt, width, height, rng, world) for bee id; within a tick the
\* workers are taken in list order
WorkerStep(id) ==
    /\ id \in pending
    /\ \A j \in pending : id <= j
    /\ \E drives \in SimDrives, rw \in RandomWalkXs(SimDt) :
          LET o == StepWorker(workers[id], flowers, bus, total_deposited,
                              SimDt, drives, rw)
          IN  /\ workers' = [workers EXCEPT ![id] = o.w]
              /\ flowers' = o.flowers
              /\ bus' = o.bus
              /\ hist' = IF Len(o.bus.heap) > Len(bus.heap)
                         THEN Append(hist, NewHist(o.bus.heap[Len(o.bus.heap)]))
                         ELSE hist
              /\ total_deposited' = o.deposited
              /\ asked' = [asked EXCEPT ![id] = @ \o o.asked]
    /\ pending' = pending \ {id}
    /\ UNCHANGED <<fop, roleVars, bop, receiver_queue, hop, mark, raised>>

\* b.step(...) for bee id raises an exception before it has changed anything:
\* the for loop of SimController.step has no handler, so the exception leaves
\* the loop and the step, and the workers after id in the list are not stepped
\* in this tick; sim_loop catches it around the whole step and goes on with
\* the next tick
StepRaises(id) ==
    /\ id \in pending
    /\ \A j \in pending : id <= j
    /\ raised' = raised \cup {id}
    /\ pending' = {}
    /\ UNCHANGED <<fieldVars, roleVars, busVars, workers, total_deposited,
                   receiver_queue, hop, mark, asked>>

-----------------------------------------------------------------------------
(* hive.py: the receiver queue, and world.py: World.service_receiver *)
(* Driven through its calls the queue is counted in units of 1e-9 nectar,  *)
(* the cutoff of Hive.drain, with dt in seconds and rates in units per     *)
(* second.                                                                 *)

\* Hive.drain: receiver_queue <= 1e-9
QueueEps == 1

\* Hive.enqueue(nectar): the queue afterwards
HiveEnqueue(q, nectar) == IF nectar > 0 THEN q + nectar ELSE q

\* a drain that takes rate * dt whatever the queue holds
HiveDrainUncapped(q, dt, rate) ==
    IF dt <= 0 \/ rate <= 0 \/ q <= QueueEps THEN [queue |-> q, ret |-> 0]
    ELSE [queue |-> q - rate * dt, ret |-> rate * dt]

\* Hive.drain(dt, rate): the queue afterwards and the amount returned
HiveDrain(q, dt, rate) ==
    IF dt <= 0 \/ rate <= 0 \/ q <= QueueEps THEN [queue |-> q, ret |-> 0]
    ELSE LET amount == Min(q, rate * dt)
         IN  [queue |-> q - amount, ret |-> amount]

HiveAmounts == {-1, 0, 1, 2, 5}
HiveDts == {-1, 0, 1, 2}
HiveRates == {-1, 0, 1, 2}

\* hive.enqueue(nectar)
CallEnqueue ==
    \E n \in HiveAmounts :
        /\ receiver_queue + total_deposited + Max(0, n) <= MaxIntake
        /\ receiver_queue' = HiveEnqueue(receiver_queue, n)
        /\ hop' = [name |-> "enqueue", dt |-> 0, rate |-> 0, nectar |-> n, ret |-> 0]
        /\ UNCHANGED <<fieldVars, roleVars, busVars, workers, pending,
                       total_deposited, mark, raised, asked>>

\* world.service_receiver(dt, rate_per_bee)
CallServiceReceiver ==
    \E dt \in HiveDts, rate \in HiveRates :
        LET d == HiveDrain(receiver_queue, dt, rate)
        IN  /\ receiver_queue' = d.queue
            /\ total_deposited' = IF d.ret > 0 THEN Deposit(total_deposited, d.ret)
                                  ELSE total_deposited
            /\ hop' = [name |-> "service_receiver", dt |-> dt, rate |-> rate,
                       nectar |-> 0, ret |-> d.ret]
            /\ UNCHANGED <<fieldVars, roleVars, busVars, workers, pending, mark, raised, asked>>

\* world.deposit(nectar)
CallDeposit ==
    \E n \in HiveAmounts :
        /\ receiver_queue + total_deposited + Max(0, n) <= MaxIntake
        /\ total_deposited' = Deposit(total_deposited, n)
        /\ hop' = [name |-> "deposit", dt |-> 0, rate |-> 0, nectar |-> n, ret |-> 0]
        /\ UNCHANGED <<fieldVars, roleVars, busVars, workers, pending,
                       receiver_queue, mark, raised, asked>>

-----------------------------------------------------------------------------
(* Specifications *)

FieldIdle == flowers = <<>> /\ fop = NoFop
RoleIdle == policy = NewPolicy /\ pop = NoPop /\ role_drives = NewDrives /\ dop = NoDop
BusIdle == bus = NewBus /\ hist = <<>> /\ bop = NoBop
NoHop == [name |-> "none", dt |-> 0, rate |-> 0, nectar |-> 0, ret |-> 0]

SimIdle ==
    /\ workers = <<>> /\ pending = {} /\ total_deposited = 0
    /\ receiver_queue = 0 /\ hop = NoHop /\ mark = 0 /\ raised = {}
    /\ asked = <<>>

\* the flower field driven through its public calls
FieldInit ==
    /\ flowers \in FreshFields
    /\ fop = NoFop
    /\ RoleIdle
    /\ BusIdle
    /\ SimIdle

FieldNext ==
    \/ CallReserveNearest
    \/ CallCollectFrom
    \/ CallReleaseReservation
    \/ CallFieldStep

SpecField == FieldInit /\ [][FieldNext]_vars

\* the flower field stepped, besides, by 5 s, which regrows half of what is
\* missing, and by 30 s, for which the regrowth formula passes the capacity
RegrowDts == {50, 300}

CallRegrow ==
    \E dt \in RegrowDts :
        /\ flowers' = FieldStep(flowers, dt)
        /\ fop' = [NoFop EXCEPT !.name = "step", !.dt = dt]
        /\ UNCHANGED <<roleVars, busVars, simVars>>

RegrowNext ==
    \/ FieldNext
    \/ CallRegrow

SpecRegrow == FieldInit /\ [][RegrowNext]_vars

\* a RolePolicy driven through tick and choose
RoleInit == FieldIdle /\ RoleIdle /\ BusIdle /\ SimIdle

RoleNext ==
    \/ CallTick
    \/ CallChoose

SpecRole == RoleInit /\ [][RoleNext]_vars

\* a RoleDrives driven through decay and drives_from_senses
DrivesInit == FieldIdle /\ RoleIdle /\ BusIdle /\ SimIdle

DrivesNext ==
    \/ CallDecay
    \/ CallDrivesFromSenses

SpecDrives == DrivesInit /\ [][DrivesNext]_vars

\* a RoleDrives left at some values by earlier senses and then updated, tick
\* after tick, by a worker that senses nothing: drives_from_senses with an
\* empty dict and the dt of the tick, 1 s or 4 s. Every tick makes its update,
\* which is the fairness of the run.
QuietStarts == {0, 40, 5000}
QuietDts == {10, 40}

CallQuietUpdate ==
    \E dt \in QuietDts :
        /\ role_drives' = DrivesFromSenses(role_drives, [k \in {} |-> 0], dt)
        /\ dop' = [NoDop EXCEPT !.name = "drives_from_senses", !.dt = dt,
                                !.pre = role_drives]
        /\ UNCHANGED <<policy, pop, fieldVars, busVars, simVars>>

QuietInit ==
    /\ FieldIdle /\ BusIdle /\ SimIdle
    /\ policy = NewPolicy /\ pop = NoPop
    /\ role_drives \in [Roles -> QuietStarts]
    /\ dop = NoDop

QuietNext == CallQuietUpdate

SpecQuiet == QuietInit /\ [][QuietNext]_vars /\ WF_vars(QuietNext)

\* one Signal, asked for its strength at points of a line through its centre
StrengthInit ==
    /\ FieldIdle /\ RoleIdle /\ SimIdle
    /\ \E sig \in StrengthSignals :
          bus = BusEmit(NewBus, sig) /\ hist = <<NewHist(sig)>>
    /\ bop = NoBop

StrengthNext == CallStrengthAt

SpecStrength == StrengthInit /\ [][StrengthNext]_vars

\* a SignalBus driven through emit, step, query and strongest
BusInit == FieldIdle /\ RoleIdle /\ BusIdle /\ SimIdle

BusNext ==
    \/ CallEmit
    \/ CallBusStep
    \/ CallQuery
    \/ CallStrongest

SpecBus == BusInit /\ [][BusNext]_vars

\* a World's hive intake driven through enqueue, service_receiver and deposit
HiveInit == FieldIdle /\ RoleIdle /\ BusIdle /\ SimIdle

HiveNext ==
    \/ CallEnqueue
    \/ CallServiceReceiver
    \/ CallDeposit

SpecHive == HiveInit /\ [][HiveNext]_vars

\* the field a simulation starts with: every flower at its capacity
FullField == [i \in 1..NumFlowers |-> NewFlower(i, FlowerX(i), FlowerY(i), 40)]

\* the simulation: workers foraging in the world
SimInit ==
    /\ flowers = FullField
    /\ fop = NoFop
    /\ RoleIdle
    /\ BusIdle
    /\ workers \in {ws \in [1..NumWorkers -> UNION {{NewWorker(i, x) : x \in StartXs} :
                                                       i \in 1..NumWorkers}] :
                       \A i \in 1..NumWorkers : ws[i].id = i}
    /\ pending = {}
    /\ total_deposited = 0
    /\ receiver_queue = 0
    /\ hop = NoHop
    /\ mark = 0
    /\ raised = {}
    /\ asked = [i \in DOMAIN workers |-> <<>>]

SimNext ==
    \/ WorldStep
    \/ \E id \in 1..NumWorkers : WorkerStep(id)

Spec == SimInit /\ [][SimNext]_vars

\* the simulation with updates that may raise
FaultNext ==
    \/ WorldStep
    \/ \E id \in 1..NumWorkers : WorkerStep(id)
    \/ \E id \in 1..NumWorkers : StepRaises(id)

SpecFault == SimInit /\ [][FaultNext]_vars

\* every tick runs to its end and is followed by the next
FairSpec ==
    /\ SimInit
    /\ [][SimNext]_vars
    /\ WF_vars(WorldStep)
    /\ \A id \in 1..NumWorkers : WF_vars(WorkerStep(id))

\* one worker step each on workers placed on their way home, as
\* WorkerBee(...) with state, carry and _last_flower_xy set, in a world whose
\* hive queue has been set
DeliveryCarries == {0, 10, 20, 30}
DeliveryXs == {100, HiveX}
DeliveryLasts == {<<>>, <<FlowerX(2), FlowerY(2)>>}
DeliveryQueues == {0, 200}

Homebound(id) ==
    {[NewWorker(id, x) EXCEPT !.state = "to_hive", !.carry = c, !.last_flower_xy = l] :
        x \in DeliveryXs, c \in DeliveryCarries, l \in DeliveryLasts}

DeliveryInit ==
    /\ flowers = FullField
    /\ fop = NoFop
    /\ RoleIdle
    /\ BusIdle
    /\ workers \in {ws \in [1..NumWorkers -> UNION {Homebound(i) : i \in 1..NumWorkers}] :
                       \A i \in 1..NumWorkers : ws[i].id = i}
    /\ pending = 1..NumWorkers
    /\ total_deposited = 0
    /\ receiver_queue \in DeliveryQueues
    /\ hop = NoHop
    /\ mark = 0
    /\ raised = {}
    /\ asked = [i \in DOMAIN workers |-> <<>>]

DeliveryNext == \E id \in 1..NumWorkers : WorkerStep(id)

SpecDelivery == DeliveryInit /\ [][DeliveryNext]_vars

\* one worker step each on wandering workers in the hive, with a waggle
\* carrying a target in the bus since before the tick
GuideXs == {HiveX - 24, HiveX, HiveX + 24}
GuideCarries == {0, Capacity}
GuideTargets == {HiveX - 96, HiveX, HiveX + 48, HiveX + 96}

GuideWaggle(tx) == NewSignal("waggle", HiveX, HiveY, 50, 2000000, 20, 30, 999, <<tx, HiveY>>)

Wanderer(id) ==
    {[NewWorker(id, x) EXCEPT !.carry = c] : x \in GuideXs, c \in GuideCarries}

\* the fields of the guide runs: every flower full, free or reserved
GuideFields == {FullField, [i \in 1..NumFlowers |-> [FullField[i] EXCEPT !.reserved = TRUE]]}

GuideInit ==
    /\ flowers \in GuideFields
    /\ fop = NoFop
    /\ RoleIdle
    /\ \E tx \in GuideTargets :
          /\ bus = BusEmit(NewBus, GuideWaggle(tx))
          /\ hist = <<NewHist(GuideWaggle(tx))>>
    /\ bop = NoBop
    /\ workers \in {ws \in [1..NumWorkers -> UNION {Wanderer(i) : i \in 1..NumWorkers}] :
                       \A i \in 1..NumWorkers : ws[i].id = i}
    /\ pending = 1..NumWorkers
    /\ total_deposited = 0
    /\ receiver_queue = 0
    /\ hop = NoHop
    /\ mark = 1
    /\ raised = {}
    /\ asked = [i \in DOMAIN workers |-> <<>>]

GuideNext == \E id \in 1..NumWorkers : WorkerStep(id)

SpecGuide == GuideInit /\ [][GuideNext]_vars

\* one worker step each on workers placed on their way to a flower, as
\* WorkerBee(...) with state, target_flower_id and carry set: at the flower
\* or one step short of it, the flower full, just worth a visit, below that
\* or empty, or the target not in the field at all
VisitCarries == {0, 48, Capacity}
VisitNectars == {0, 10, 16, 40}
VisitOffsets == {0, StepLength}
MissingId == NumFlowers + 1

Visitor(id) ==
    {[NewWorker(id, FlowerX(id) + off) EXCEPT !.state = "to_flower",
                                              !.target_flower_id = t, !.carry = c] :
        off \in VisitOffsets, t \in {id, MissingId}, c \in VisitCarries}

\* the fields of the visits: a flower is reserved when a worker is on its way
\* to it
VisitFields(ws) ==
    {[i \in 1..NumFlowers |->
         [NewFlower(i, FlowerX(i), FlowerY(i), n[i]) EXCEPT
             !.reserved = \E j \in DOMAIN ws : ws[j].target_flower_id = i]] :
        n \in [1..NumFlowers -> VisitNectars]}

VisitInit ==
    /\ workers \in {ws \in [1..NumWorkers -> UNION {Visitor(i) : i \in 1..NumWorkers}] :
                       \A i \in 1..NumWorkers : ws[i].id = i}
    /\ flowers \in VisitFields(workers)
    /\ fop = NoFop
    /\ RoleIdle
    /\ BusIdle
    /\ pending = 1..NumWorkers
    /\ total_deposited = 0
    /\ receiver_queue = 0
    /\ hop = NoHop
    /\ mark = 0
    /\ raised = {}
    /\ asked = [i \in DOMAIN workers |-> <<>>]

VisitNext == \E id \in 1..NumWorkers : WorkerStep(id)

SpecVisit == VisitInit /\ [][VisitNext]_vars

\* one worker sensing a bus that holds a storm of signals emitted at the
\* hive: waggles, weaker trembles, and stronger signals of a kind that is not
\* in SENSE_KEYS
StormWaggles == {0, 1, 8, 9, 16, 17}
StormTrembles == {0, 1, 8, 9}
StormOthers == {0, 1, 10, 16}
SenseOffsets == {0, 20, 40}

RECURSIVE EmitMany(_, _, _)
EmitMany(b, sig, n) == IF n = 0 THEN b ELSE EmitMany(BusEmit(b, sig), sig, n - 1)

StormBus(nt, nw, no) ==
    EmitMany(
        EmitMany(
            EmitMany(NewBus, NewSignal("tremble", HiveX, HiveY, 40, 500000, 0, 5, 2, <<>>), nt),
            NewSignal("waggle", HiveX, HiveY, 40, 1000000, 0, 5, 1, <<>>), nw),
        NewSignal("buzz", HiveX, HiveY, 40, 2000000, 0, 5, 3, <<>>), no)

\* WorkerBee.step, line 164: senses = sense_signals(self.x, self.y, world)
CallSenseSignals(id) ==
    /\ dop.name = "init"
    /\ dop' = [NoDop EXCEPT !.name = "sense_signals",
                            !.senses = SenseResult(workers[id], bus)]
    /\ UNCHANGED <<fieldVars, policy, pop, role_drives, busVars, simVars>>

SenseInit ==
    /\ FieldIdle /\ RoleIdle
    /\ \E nt \in StormTrembles, nw \in StormWaggles, no \in StormOthers :
          /\ bus = StormBus(nt, nw, no)
          /\ hist = [u \in 1..Len(bus.heap) |-> NewHist(bus.heap[u])]
    /\ bop = NoBop
    /\ \E off \in SenseOffsets : workers = <<NewWorker(1, HiveX + off)>>
    /\ pending = {}
    /\ total_deposited = 0
    /\ receiver_queue = 0
    /\ hop = NoHop
    /\ mark = 0
    /\ raised = {}
    /\ asked = [i \in DOMAIN workers |-> <<>>]

SenseNext == \E id \in DOMAIN workers : CallSenseSignals(id)

SpecSense == SenseInit /\ [][SenseNext]_vars

\* workers foraging on one dense patch of more flowers than the memory of
\* recently visited flowers holds, planted as add_at(x, y, n) plants them,
\* within a few pixels of one point; the patch lies one travelling step from
\* the edge of the hive's delivery range, where the workers start, so that a
\* worker alternates between the two places. The drives are those of a run
\* without signals that raise another role: the worker stays a forager.
PatchIds == 1..18
PatchX == HiveX + HiveRadius + 8 + StepLength

PatchFlowerX(i) == PatchX - 4 + (i % 9)

PatchField == [i \in PatchIds |-> NewFlower(i, PatchFlowerX(i), HiveY, 40)]

PatchStartXs == {PatchX - StepLength, PatchX}

ForagerDrives == [r \in Roles |-> IF r = "forager" THEN 35 ELSE 0]

\* the nectar brought home in a run, at most
MaxDeposited == 1200

\* b.step(dt, width, height, rng, world) for bee id, the forager drive ahead
ForagerStep(id) ==
    /\ id \in pending
    /\ \A j \in pending : id <= j
    /\ \E rw \in RandomWalkXs(SimDt) :
          LET o == StepWorker(workers[id], flowers, bus, total_deposited,
                              SimDt, ForagerDrives, rw)
          IN  /\ workers' = [workers EXCEPT ![id] = o.w]
              /\ flowers' = o.flowers
              /\ bus' = o.bus
              /\ hist' = IF Len(o.bus.heap) > Len(bus.heap)
                         THEN Append(hist, NewHist(o.bus.heap[Len(o.bus.heap)]))
                         ELSE hist
              /\ total_deposited' = o.deposited
              /\ asked' = [asked EXCEPT ![id] = @ \o o.asked]
    /\ pending' = pending \ {id}
    /\ UNCHANGED <<fop, roleVars, bop, receiver_queue, hop, mark, raised>>

\* the next tick begins, while the run lasts
PatchTick ==
    /\ total_deposited < MaxDeposited
    /\ WorldStep

PatchInit ==
    /\ flowers = PatchField
    /\ fop = NoFop
    /\ RoleIdle
    /\ BusIdle
    /\ workers \in {ws \in [1..NumWorkers -> UNION {{NewWorker(i, x) : x \in PatchStartXs} :
                                                       i \in 1..NumWorkers}] :
                       \A i \in 1..NumWorkers : ws[i].id = i}
    /\ pending = {}
    /\ total_deposited = 0
    /\ receiver_queue = 0
    /\ hop = NoHop
    /\ mark = 0
    /\ raised = {}
    /\ asked = [i \in DOMAIN workers |-> <<>>]

PatchNext ==
    \/ PatchTick
    \/ \E id \in DOMAIN workers : ForagerStep(id)

SpecPatch == PatchInit /\ [][PatchNext]_vars

-----------------------------------------------------------------------------
(* Simulation claims *)

FlowerAt(fl, flower_id) == fl[FindIndex(fl, 1, flower_id)]

HasFlower(fl, flower_id) == \E i \in 1..Len(fl) : fl[i].id = flower_id

\* C1: over any sequence of ticks, no flower is the target_flower_id of two
\* different workers at the same time
C1_OneHolderPerFlower ==
    \A i, j \in DOMAIN workers :
        (i # j /\ workers[i].target_flower_id # 0)
            => workers[i].target_flower_id # workers[j].target_flower_id

\* worker 2 is nearer to flower 1, which worker 1 reserved before it, and has
\* been given flower 2
C1_Witness ==
    /\ workers # <<>>
    /\ workers[1].state = "to_flower" /\ workers[1].target_flower_id = 1
    /\ workers[2].state = "to_flower" /\ workers[2].target_flower_id = 2
    /\ Abs(workers[2].x - flowers[1].x) < Abs(workers[2].x - flowers[2].x)
    /\ flowers[1].reserved /\ flowers[2].reserved

\* C2: every flower that becomes reserved is eventually unreserved again (by
\* collection, release or timeout); stated here for the runs in which every
\* worker stays a forager, the role in which the seek timer would run
C2_ReservationEventuallyReleased ==
    ([](\A id \in DOMAIN workers : workers[id].role = "forager"))
        => \A i \in 1..NumFlowers :
              (workers # <<>> /\ flowers[i].reserved) ~> ~flowers[i].reserved

\* a forager has stepped past its reserved flower and is again less than one
\* step but not less than the arrival radius away from it
C2_Witness ==
    \E id \in DOMAIN workers :
        LET w == workers[id] IN
        /\ w.role = "forager" /\ w.state = "to_flower"
        /\ w.target_flower_id # 0
        /\ FlowerAt(flowers, w.target_flower_id).reserved
        /\ w.policy.dwell_t >= MinDwell
        /\ Abs(FlowerAt(flowers, w.target_flower_id).x - w.x) >= ArrivalRadius
        /\ Abs(FlowerAt(flowers, w.target_flower_id).x - w.x) < StepLength

\* C11: in every tick that advances time the signal bus is stepped by dt
\* exactly once, before any worker's update of that tick: the bus the workers
\* of a tick start from is the previous bus stepped by dt
C11_BusSteppedEachTick ==
    [][(pending = {} /\ pending' # {}) => bus' = BusStep(bus, SimDt)]_vars

\* a tick is about to start with a waggle in the bus
C11_Witness ==
    /\ workers # <<>> /\ pending = {}
    /\ \E u \in Range(bus.signals) : bus.heap[u].kind = "waggle"

\* what the step of worker id, taken from the current state to the next,
\* reads from the bus
ReadBy(id) ==
    SenseSignals(workers[id], bus)
        \cup (IF workers'[id].role = "forager"
              THEN FollowedSignals(workers[id], bus) ELSE {})

\* C12: a signal emitted during tick n is not sensed by any worker in tick n:
\* whatever a worker's step reads from the bus was emitted before the tick began
C12_EmittedSensedNextTick ==
    [][\A id \in DOMAIN workers :
          (id \in pending /\ id \notin pending') => \A u \in ReadBy(id) : u <= mark]_vars

\* a worker still to be stepped stands within reach of a waggle emitted
\* earlier in the same tick
C12_Witness ==
    \E id \in pending : \E u \in SenseSignals(workers[id], bus) : u > mark

\* C24: an exception in one worker's update does not stop the tick: every
\* worker that leaves the tick's list of workers still to be stepped has
\* either been updated or is the one whose update raised
C24_FailureIsolated ==
    [][\A id \in pending \ pending' : id \in raised' \/ WorkerStep(id)]_vars

\* the update of a worker has raised and the tick has ended with a worker
\* later in the list not stepped
C24_Witness ==
    /\ pending = {}
    /\ \E id \in raised : \E j \in DOMAIN workers : j > id

\* C37: in every reachable state a worker's target_flower_id is set exactly
\* when its forager sub-state is to_flower, and a flower whose identifier is
\* some worker's target_flower_id has its reserved flag set.
C37_TargetIffToFlower ==
    \A id \in DOMAIN workers :
        /\ (workers[id].target_flower_id # 0) <=> (workers[id].state = "to_flower")
        /\ (workers[id].target_flower_id # 0
              /\ HasFlower(flowers, workers[id].target_flower_id))
                => FlowerAt(flowers, workers[id].target_flower_id).reserved

\* one worker is on its way to a flower it holds while another, which has
\* collected, is on its way home with no target
C37_Witness ==
    \E i, j \in DOMAIN workers :
        /\ workers[i].state = "to_flower"
        /\ workers[i].target_flower_id # 0
        /\ HasFlower(flowers, workers[i].target_flower_id)
        /\ FlowerAt(flowers, workers[i].target_flower_id).reserved
        /\ workers[j].state = "to_hive"
        /\ workers[j].carry > 0
        /\ workers[j].target_flower_id = 0

\* the workers whose target_flower_id is the flower's identifier
Holders(flower_id) ==
    {id \in DOMAIN workers : workers[id].target_flower_id = flower_id}

\* C38: when only workers reserve flowers, every flower whose reserved flag
\* is set is the target_flower_id of exactly one worker, after any sequence
\* of ticks.
C38_NoOrphanedLock ==
    \A i \in 1..Len(flowers) :
        flowers[i].reserved => Cardinality(Holders(flowers[i].id)) = 1

\* a flower that was collected from has been unlocked and has no holder,
\* while another flower is locked by the worker that goes to it
C38_Witness ==
    /\ workers # <<>>
    /\ \E i, k \in 1..Len(flowers) :
          /\ flowers[i].ever_visited /\ ~flowers[i].reserved
          /\ Holders(flowers[i].id) = {}
          /\ flowers[k].reserved
          /\ Cardinality(Holders(flowers[k].id)) = 1

\* C39: in every reachable state 0 <= carry <= capacity for every worker; no
\* collection takes more than the capacity that was left, and a worker at
\* full capacity never starts a new reservation.
C39_CarryWithinCapacity ==
    /\ [](\A id \in DOMAIN workers :
             0 <= workers[id].carry /\ workers[id].carry <= workers[id].capacity)
    /\ [][\A id \in DOMAIN workers :
             /\ workers'[id].carry > workers[id].carry
                  => workers'[id].carry - workers[id].carry
                        <= workers[id].capacity - workers[id].carry
             /\ Len(asked'[id]) > Len(asked[id])
                  => workers'[id].carry < workers'[id].capacity]_vars

\* a worker has filled up with a last collection smaller than a quantum and
\* has gone home without asking for another flower
C39_Witness ==
    /\ workers # <<>>
    /\ \E id \in DOMAIN workers :
          /\ id \notin pending
          /\ workers[id].carry = workers[id].capacity
          /\ workers[id].capacity % VISIT_QUANTA # 0
          /\ workers[id].state = "to_hive"
          /\ asked[id] = <<>>

RECURSIVE SumCarry(_, _)
SumCarry(ws, n) == IF n = 0 THEN 0 ELSE ws[n].carry + SumCarry(ws, n - 1)

RECURSIVE SumNectar(_, _)
SumNectar(fl, n) == IF n = 0 THEN 0 ELSE fl[n].nectar + SumNectar(fl, n - 1)

\* the nectar that has left the flowers and is in the colony's hands: every
\* worker's carry, the hive intake queue and total_deposited
InHand(ws, queue, dep) == SumCarry(ws, Len(ws)) + queue + dep

\* the nectar a step removes from the flowers: a worker's step changes a
\* flower's nectar through collect_from only, and the world's step, which
\* regrows the flowers, collects nothing
RemovedByStep ==
    IF pending = {} THEN 0
    ELSE SumNectar(flowers, Len(flowers)) - SumNectar(flowers', Len(flowers'))

\* C40: the foraging loop conserves nectar: nothing is in hand at the start,
\* and every step adds to the workers' carry, the hive intake queue and
\* total_deposited together exactly what its collect_from calls removed from
\* the flowers, so that after any sequence of ticks the total removed equals
\* their sum; a delivery neither loses nor duplicates nectar.
C40_NectarConserved ==
    /\ InHand(workers, receiver_queue, total_deposited) = 0
    /\ [][InHand(workers', receiver_queue', total_deposited')
            = InHand(workers, receiver_queue, total_deposited) + RemovedByStep]_vars

\* a worker has delivered its crop, with nothing left in its carry, while
\* another is carrying what it collected
C40_Witness ==
    /\ workers # <<>>
    /\ total_deposited > 0
    /\ \E i, j \in DOMAIN workers :
          /\ i \notin pending
          /\ workers[i].carry = 0 /\ workers[i].state = "wander"
          /\ workers[i].last_flower_xy # <<>>
          /\ workers[j].carry > 0

-----------------------------------------------------------------------------
(* Delivery claims, checked under SpecDelivery *)

\* the step of worker id from the current state to the next is a delivery: a
\* forager in to_hive within reach of the hive with nectar in its crop
Delivers(id) ==
    /\ id \in pending /\ id \notin pending'
    /\ workers'[id].role = "forager"
    /\ workers[id].state = "to_hive"
    /\ Abs(HiveX - workers[id].x) < HiveRadius + 10
    /\ workers[id].carry > 0

\* the kinds of the signals emitted by the step from the current state
EmittedKinds(k) ==
    Cardinality({u \in (Len(bus.heap) + 1)..Len(bus'.heap) : bus'.heap[u].kind = k})

\* the queue length from which a delivery is to tremble, as the tests set it
\* with set_tremble_threshold(0.1)
TrembleThreshold == 2

\* C13: a delivery made while the hive's intake queue is at or above the
\* tremble threshold emits exactly one tremble signal and no waggle signal
C13_TrembleInsteadOfWaggle ==
    [][\A id \in DOMAIN workers :
          (Delivers(id) /\ receiver_queue >= TrembleThreshold)
              => (EmittedKinds("tremble") = 1 /\ EmittedKinds("waggle") = 0)]_vars

\* a forager has delivered 1.5 units under a queue of 10 and its waggle is in
\* the bus
C13_Witness ==
    /\ receiver_queue >= TrembleThreshold
    /\ \E id \in DOMAIN workers :
          /\ id \notin pending /\ workers[id].state = "wander"
          /\ workers[id].role = "forager"
          /\ \E u \in Range(bus.signals) :
                bus.heap[u].kind = "waggle" /\ bus.heap[u].source_id = id

\* C16: a delivery of c > 0 enqueues the full amount into the hive's intake
\* queue (the queue grows by c) and leaves the worker with carry 0 in wander
C16_DeliveryEnqueued ==
    [][\A id \in DOMAIN workers :
          Delivers(id) =>
              /\ receiver_queue' = receiver_queue + workers[id].carry
              /\ workers'[id].carry = 0
              /\ workers'[id].state = "wander"]_vars

\* a forager has delivered: its crop is empty and total_deposited has grown
C16_Witness ==
    /\ total_deposited > 0
    /\ \E id \in DOMAIN workers :
          /\ id \notin pending /\ workers[id].state = "wander"
          /\ workers[id].role = "forager" /\ workers[id].carry = 0

\* the signals (heap indices) emitted by the step from the current state
Emitted == (Len(bus.heap) + 1)..Len(bus'.heap)

\* C21 as stated: on a delivery under an uncongested queue a waggle is emitted
\* exactly when the amount collected exceeds the advertisement threshold; at
\* most one is emitted, at the hive entrance, with the remembered last
\* collection location as its payload target
C21_WaggleOnDelivery ==
    [][\A id \in DOMAIN workers :
          (Delivers(id) /\ receiver_queue < TrembleThreshold) =>
              /\ EmittedKinds("waggle") <= 1
              /\ (EmittedKinds("waggle") = 1) <=> (workers[id].carry > WAGGLE_THRESHOLD)
              /\ \A u \in Emitted :
                    bus'.heap[u].kind = "waggle" =>
                        /\ <<bus'.heap[u].x, bus'.heap[u].y>> = EntranceXY
                        /\ bus'.heap[u].payload = workers[id].last_flower_xy
                        /\ bus'.heap[u].payload # <<>>]_vars

\* C21 as amended: on a delivery under an uncongested queue a waggle is
\* emitted exactly when the amount delivered is at least the advertisement
\* threshold and a last collection location is remembered; at most one is
\* emitted, at the hive centre, with that location as its payload target
C21_WaggleOnDeliveryAtCentre ==
    [][\A id \in DOMAIN workers :
          (Delivers(id) /\ receiver_queue < TrembleThreshold) =>
              /\ EmittedKinds("waggle") <= 1
              /\ (EmittedKinds("waggle") = 1) <=>
                    (workers[id].carry >= WAGGLE_THRESHOLD
                        /\ workers[id].last_flower_xy # <<>>)
              /\ \A u \in Emitted :
                    bus'.heap[u].kind = "waggle" =>
                        /\ <<bus'.heap[u].x, bus'.heap[u].y>> = <<HiveX, HiveY>>
                        /\ bus'.heap[u].payload = workers[id].last_flower_xy
                        /\ bus'.heap[u].payload # <<>>]_vars

\* under an empty queue a forager has delivered exactly the threshold amount
\* and its waggle, aimed at the flower it remembered, is in the bus
C21_Witness ==
    /\ receiver_queue < TrembleThreshold
    /\ \E id \in DOMAIN workers :
          /\ id \notin pending /\ workers[id].state = "wander"
          /\ workers[id].carry = 0
          /\ \E u \in Range(bus.signals) :
                /\ bus.heap[u].kind = "waggle" /\ bus.heap[u].source_id = id
                /\ bus.heap[u].intensity = 800000 + 20000 * WAGGLE_THRESHOLD
                /\ bus.heap[u].payload = workers[id].last_flower_xy

-----------------------------------------------------------------------------
(* Flower visit claims, checked under SpecVisit *)

\* the step of worker id from the current state to the next is taken as a
\* forager on the way to a flower that is in the field
Visits(id) ==
    /\ id \in pending /\ id \notin pending'
    /\ workers'[id].role = "forager"
    /\ workers[id].state = "to_flower"
    /\ workers[id].target_flower_id # 0
    /\ HasFlower(flowers, workers[id].target_flower_id)

\* the flower worker id is on its way to, before and after the step
Target(id) == FlowerAt(flowers, workers[id].target_flower_id)
TargetAfter(id) == FlowerAt(flowers', workers[id].target_flower_id)

\* worker id stands at its flower
AtTarget(id) == Abs(Target(id).x - workers[id].x) < ArrivalRadius

\* the step is an arrival: the worker is at its flower, which is worth a
\* visit, and a collection is attempted
Arrives(id) == Visits(id) /\ AtTarget(id) /\ Available(Target(id))

\* what the collection of the step yields
Yield(id) == workers'[id].carry - workers[id].carry

C22_WitnessDepleted ==
    \E id \in DOMAIN workers :
        /\ id \notin pending /\ workers[id].state = "wander"
        /\ workers[id].x = FlowerX(id) /\ id <= NumFlowers
        /\ flowers[id].nectar > 0 /\ ~Available(flowers[id]) /\ ~flowers[id].reserved

\* C23: a forager in to_flower whose reserved flower is missing or no longer
\* available releases the reservation (the flower, if it exists, becomes
\* unreserved), clears its target identifier and is in wander after that same
\* step; every step that leaves to_flower without collecting leaves the
\* formerly reserved flower unreserved
C23_InvalidReservationReleased ==
    [][\A id \in DOMAIN workers :
          LET w == workers[id]
              here == HasFlower(flowers, w.target_flower_id)
          IN  (/\ id \in pending /\ id \notin pending'
               /\ workers'[id].role = "forager"
               /\ w.state = "to_flower" /\ w.target_flower_id # 0) =>
                  /\ (~here \/ ~Available(Target(id))) =>
                        /\ workers'[id].state = "wander"
                        /\ workers'[id].target_flower_id = 0
                        /\ here => ~TargetAfter(id).reserved
                  /\ (here /\ workers'[id].state # "to_flower" /\ Yield(id) = 0) =>
                        ~TargetAfter(id).reserved]_vars

\* one step short of its flower a forager has found it below the threshold
\* and stands where it was, in wander, its target cleared and the flower
\* released
C23_Witness ==
    \E id \in DOMAIN workers :
        /\ id \notin pending /\ workers[id].state = "wander"
        /\ workers[id].target_flower_id = 0
        /\ workers[id].x = FlowerX(id) + StepLength /\ id <= NumFlowers
        /\ ~Available(flowers[id]) /\ ~flowers[id].reserved
        /\ \A j \in DOMAIN workers : j \in pending => workers[j].target_flower_id # id

\* flower i of the field can be reserved by worker id once the collection of
\* its step is done: it is worth a visit, not in the worker's memory, and held
\* by nobody (the collection has released the worker's own flower)
FreeAfterCollect(id, i) ==
    /\ Available(flowers'[i])
    /\ flowers[i].id \notin Range(workers'[id].avoid)
    /\ (flowers[i].id = workers[id].target_flower_id \/ ~flowers[i].reserved)

\* the step of worker id leaves it in to_flower with a flower that the step
\* has reserved for it
ChainsOn(id) ==
    LET t == workers'[id].target_flower_id
    IN  /\ workers'[id].state = "to_flower"
        /\ t # 0 /\ t # workers[id].target_flower_id
        /\ HasFlower(flowers, t)
        /\ ~FlowerAt(flowers, t).reserved
        /\ FlowerAt(flowers', t).reserved

\* C32: on arrival at its reserved flower, after collecting, the forager is
\* in to_flower with a newly reserved target if and only if it still has
\* spare capacity, available flowers remain and a new reservation succeeds;
\* in every other case its next state is to_hive with no target.
C32_ChainOrHome ==
    [][\A id \in DOMAIN workers :
          Arrives(id) =>
              LET chain == /\ HasSpare(workers'[id])
                           /\ Remaining(flowers') > 0
                           /\ \E i \in DOMAIN flowers : FreeAfterCollect(id, i)
              IN  /\ chain => ChainsOn(id)
                  /\ ~chain => /\ workers'[id].state = "to_hive"
                               /\ workers'[id].target_flower_id = 0]_vars

\* a forager that has collected at one flower, still has room, and holds a
\* reservation on another flower
C32_Witness ==
    \E id \in DOMAIN workers :
        /\ id \notin pending /\ workers[id].state = "to_flower"
        /\ workers[id].carry > 0 /\ HasSpare(workers[id])
        /\ workers[id].avoid # <<>>
        /\ workers[id].target_flower_id \notin Range(workers[id].avoid)
        /\ HasFlower(flowers, workers[id].target_flower_id)
        /\ FlowerAt(flowers, workers[id].target_flower_id).reserved

\* a forager that has collected, still has room, found no flower to reserve
\* and has turned home
C32_WitnessHome ==
    \E id \in DOMAIN workers :
        /\ id \notin pending /\ workers[id].state = "to_hive"
        /\ workers[id].avoid # <<>>
        /\ HasSpare(workers[id])
        /\ workers[id].target_flower_id = 0
        /\ asked[id] = <<0>>

-----------------------------------------------------------------------------
(* Flower field claims, checked under SpecField *)


\* C3: after collect_from(id, amount) on an existing flower that flower is
\* unreserved, whatever amount was returned and whether or not it was reserved
\* before the call.
C3_CollectClearsReservation ==
    (fop.name = "collect_from" /\ HasFlower(flowers, fop.id))
        => ~FlowerAt(flowers, fop.id).reserved

\* a collection that returned zero from a flower that was reserved before it
C3_Witness ==
    /\ fop.name = "collect_from"
    /\ HasFlower(flowers, fop.id)
    /\ fop.pre_reserved
    /\ fop.ret = 0

\* C4: release_reservation(id) is idempotent: a second call changes nothing
\* more, and a call on an already-released flower or a missing id changes
\* nothing at all.
C4_ReleaseIdempotent ==
    [][fop'.name = "release_reservation" =>
          /\ ReleaseReservation(flowers', fop'.id) = flowers'
          /\ (~HasFlower(flowers, fop'.id) \/ ~FlowerAt(flowers, fop'.id).reserved)
                => flowers' = flowers
          /\ \A i \in 1..Len(flowers) :
                flowers[i].id # fop'.id => flowers'[i] = flowers[i]
          /\ HasFlower(flowers, fop'.id) => ~FlowerAt(flowers', fop'.id).reserved
      ]_vars

\* a release called on an existing flower that was already released
C4_Witness ==
    /\ fop.name = "release_reservation"
    /\ HasFlower(flowers, fop.id)
    /\ ~fop.pre_reserved

\* the flowers that qualify for reserve_nearest: unreserved, at or above the
\* visit threshold, not avoided
Qualifying(fl, avoid) ==
    {i \in 1..Len(fl) : ~fl[i].reserved /\ fl[i].nectar >= 15 /\ fl[i].id \notin avoid}

\* C5: reserve_nearest(x, y, avoid) returns a nearest flower among those that
\* before the call are unreserved, available and not avoided, marks exactly
\* that flower reserved and changes no other; it returns none and changes
\* nothing exactly when no flower qualifies.
C5_ReserveNearest ==
    [][fop'.name = "reserve_nearest" =>
          LET Q == Qualifying(flowers, fop'.avoid)
          IN  IF Q = {}
              THEN fop'.ret = 0 /\ flowers' = flowers
              ELSE \E i \in Q :
                      /\ fop'.ret = flowers[i].id
                      /\ \A j \in Q : Dist2(flowers[i], fop'.x, fop'.y)
                                        <= Dist2(flowers[j], fop'.x, fop'.y)
                      /\ flowers' = [flowers EXCEPT ![i].reserved = TRUE]
      ]_vars

\* a reservation that had to choose: the flower returned is not the first of
\* the list, and the first one qualified too
C5_Witness ==
    /\ fop.name = "reserve_nearest"
    /\ fop.ret = 2
    /\ ~flowers[1].reserved /\ flowers[1].nectar >= 15 /\ 1 \notin fop.avoid

\* C6: collect_from(id, amount), amount >= 0, returns got with
\* 0 <= got <= amount, lowers the flower's nectar by exactly got and never
\* below zero; for an id no flower has it returns 0 and changes nothing.
C6_CollectAmount ==
    [][fop'.name = "collect_from" =>
          IF ~HasFlower(flowers, fop'.id)
          THEN fop'.ret = 0 /\ flowers' = flowers
          ELSE /\ 0 <= fop'.ret /\ fop'.ret <= fop'.amount
               /\ FlowerAt(flowers', fop'.id).nectar
                    = FlowerAt(flowers, fop'.id).nectar - fop'.ret
               /\ FlowerAt(flowers', fop'.id).nectar >= 0
      ]_vars

\* a collection that obtained less than it asked for
C6_Witness ==
    /\ fop.name = "collect_from"
    /\ 0 < fop.ret /\ fop.ret < fop.amount

-----------------------------------------------------------------------------
(* RolePolicy claims, checked under SpecRole *)

\* C7: choose never changes the current role while the time accumulated by
\* tick since the last switch (or since construction) is below min_dwell.
C7_NoSwitchBeforeDwell ==
    [][policy'.current # policy.current => pop.since >= MinDwell]_vars

\* a choose that was offered a role beating the margin while the accumulated
\* time was still short, and kept the role
C7_Witness ==
    /\ pop.name = "choose"
    /\ 0 < pop.since /\ pop.since < MinDwell
    /\ \E r \in Roles : pop.drives[r] >= pop.drives[pop.pre.current] + Hysteresis
    /\ policy.current = pop.pre.current

TopScore(drives) == CHOOSE s \in {drives[r] : r \in Roles} : \A r \in Roles : drives[r] <= s

\* C8: once the dwell timer is at least min_dwell, choose switches to a
\* highest-scoring role when that role's drive is at least the current
\* role's drive plus the hysteresis margin; when no role's drive reaches the
\* current drive plus the margin, choose keeps the current role whatever the
\* dwell timer says.
C8_SwitchOnMargin ==
    [][pop'.name = "choose" =>
          LET d == pop'.drives
              cur == policy.current
          IN  /\ (policy.dwell_t >= MinDwell /\ TopScore(d) >= d[cur] + Hysteresis)
                    => (policy'.current # cur /\ d[policy'.current] = TopScore(d))
              /\ (\A r \in Roles : d[r] < d[cur] + Hysteresis)
                    => policy'.current = cur
      ]_vars

\* a switch made with the best drive exactly at current plus margin
C8_Witness ==
    /\ pop.name = "choose"
    /\ policy.current # pop.pre.current
    /\ pop.drives[policy.current] = pop.drives[pop.pre.current] + Hysteresis

\* a choose long after the dwell time that kept the role, the best other
\* drive being above the current one but short of the margin
C8_WitnessKeep ==
    /\ pop.name = "choose"
    /\ pop.pre.dwell_t > MinDwell
    /\ policy.current = pop.pre.current
    /\ \E r \in Roles : pop.drives[r] > pop.drives[policy.current]

\* C35: a choose that switches role leaves the dwell timer at 0; a choose
\* that does not switch leaves the current role and the dwell timer as they
\* were; the dwell timer grows only in a tick, and a tick never lowers it
\* and never changes the role.
C35_DwellTimerFrame ==
    [][/\ pop'.name = "choose" =>
             IF policy'.current # policy.current
             THEN policy'.dwell_t = 0
             ELSE policy' = policy
       /\ policy'.dwell_t > policy.dwell_t => pop'.name = "tick"
       /\ pop'.name = "tick" =>
             /\ policy'.dwell_t >= policy.dwell_t
             /\ policy'.current = policy.current]_vars

\* a choose has switched role after a dwell of more than min_dwell and the
\* timer is back at 0
C35_Witness ==
    /\ pop.name = "choose"
    /\ policy.current # pop.pre.current
    /\ pop.pre.dwell_t > MinDwell
    /\ policy.dwell_t = 0

\* a tick with a negative dt has left a running timer where it was
C35_WitnessNegativeTick ==
    /\ pop.name = "tick"
    /\ pop.dt < 0
    /\ pop.pre.dwell_t > 0
    /\ policy = pop.pre

-----------------------------------------------------------------------------
(* SignalBus claims, checked under SpecBus *)

\* the signal object u is held by the bus: in its list or in its per-kind index
InBus(u) ==
    \/ u \in Range(bus.signals)
    \/ \E k \in DOMAIN bus.by_kind : u \in Range(bus.by_kind[k])

\* C9: a signal emitted with time-to-live T is absent from the bus once the
\* positive dt of the steps it has been through sum to at least T, and is
\* still present while the sum is below T and no step has left its intensity
\* at or below epsilon.
C9_TtlExpiry ==
    \A u \in DOMAIN hist :
        /\ hist[u].elapsed >= hist[u].ttl0 => ~InBus(u)
        /\ (hist[u].elapsed < hist[u].ttl0 /\ ~hist[u].faded) => u \in Range(bus.signals)

\* a signal whose step times sum to exactly its ttl, never faded, and gone
C9_Witness ==
    \E u \in DOMAIN hist :
        /\ hist[u].elapsed = hist[u].ttl0
        /\ ~hist[u].faded
        /\ hist[u].removed
        /\ bop.name = "step"

\* C10: after every step every signal held by the bus is alive (ttl > 0 and
\* intensity > epsilon); a signal a step has removed is never held by the bus
\* again and is never returned by a later query or strongest call.
C10_OnlyAliveNeverRevived ==
    /\ bop.name = "step" =>
          \A u \in DOMAIN bus.heap :
              InBus(u) => (bus.heap[u].ttl > 0 /\ bus.heap[u].intensity > 1)
    /\ \A u \in DOMAIN hist : hist[u].removed => ~InBus(u)
    /\ bop.name \in {"query", "strongest"} =>
          \A i \in 1..Len(bop.ret) : ~hist[bop.ret[i].sig].removed

\* a kind-filtered query that returned a signal of a kind of which another
\* signal has been removed
C10_Witness ==
    /\ bop.name = "query"
    /\ ~bop.kinds.none
    /\ bop.ret # <<>>
    /\ \E u \in DOMAIN hist :
          hist[u].removed /\ bus.heap[u].kind = bus.heap[bop.ret[1].sig].kind

\* the signals of the bus that match a query: strength at the point at least
\* min_strength and kind among kinds (every kind when kinds is none)
Matches(x, kinds, min_strength) ==
    {u \in Range(bus.signals) :
        /\ StrengthAt(bus.heap[u], x, 0) >= min_strength
        /\ (kinds.none \/ bus.heap[u].kind \in Range(kinds.list))}

\* ret holds n of the matching signals, each once with its strength,
\* strongest first, and none left out is stronger than one returned
IsTopOf(ret, m, x, n) ==
    /\ Len(ret) = n
    /\ \A i \in 1..Len(ret) :
          ret[i].sig \in m /\ ret[i].val = StrengthAt(bus.heap[ret[i].sig], x, 0)
    /\ \A i, j \in 1..Len(ret) : i < j => (ret[i].val >= ret[j].val /\ ret[i].sig # ret[j].sig)
    /\ \A u \in m : (\A i \in 1..Len(ret) : ret[i].sig # u) =>
          \A i \in 1..Len(ret) : ret[i].val >= StrengthAt(bus.heap[u], x, 0)

NoRepeats(list) == \A i, j \in 1..Len(list) : i # j => list[i] # list[j]

\* C17 as stated: query returns exactly the matching signals, strongest first,
\* truncated to the first limit entries; with no match the list is empty
C17_QueryExact ==
    bop.name = "query" =>
        LET m == Matches(bop.x, bop.kinds, bop.min_strength)
        IN  IsTopOf(bop.ret, m, bop.x, Min(bop.limit, Cardinality(m)))

\* C17 as amended: for kinds that name no kind twice, query returns the
\* matching signals strongest first, truncated to the first limit entries when
\* limit > 0 and not truncated when limit <= 0
C17_QueryExactPositiveLimit ==
    (bop.name = "query" /\ NoRepeats(bop.kinds.list)) =>
        LET m == Matches(bop.x, bop.kinds, bop.min_strength)
        IN  IsTopOf(bop.ret, m, bop.x,
                    IF bop.limit > 0 THEN Min(bop.limit, Cardinality(m))
                    ELSE Cardinality(m))

\* a query by kind with limit 1 has returned the stronger of two matching
\* signals, which was emitted after the weaker
C17_Witness ==
    /\ bop.name = "query" /\ bop.limit = 1 /\ ~bop.kinds.none
    /\ Len(bop.ret) = 1
    /\ \E u \in Matches(bop.x, bop.kinds, bop.min_strength) :
          u < bop.ret[1].sig /\ StrengthAt(bus.heap[u], bop.x, 0) < bop.ret[1].val

\* query(x, y, kinds) with limit 1 and the default min_strength, asked of the
\* bus a strongest call has just read
QueryOne == BusQuery(bus, bop.x, 0, bop.kinds, DefaultMinStrength, 1)

\* the strengths at the point of the signals that pass the kind filter
FilteredStrengths ==
    {StrengthAt(bus.heap[u], bop.x, 0) :
        u \in {v \in Range(bus.signals) :
                  bop.kinds.none \/ bus.heap[v].kind \in Range(bop.kinds.list)}}

\* C18 as stated: strongest returns the first element of query with limit 1,
\* and none exactly when that query result is empty
C18_StrongestIsQueryOne ==
    bop.name = "strongest" =>
        /\ (bop.ret = <<>>) <=> (QueryOne = <<>>)
        /\ QueryOne # <<>> => bop.ret[1].sig = QueryOne[1].sig

\* C18 as amended: when query with limit 1 is not empty strongest returns its
\* first element; when it is empty strongest returns none exactly when no
\* signal passing the kind filter has a positive strength at the point, and
\* otherwise a signal of the greatest such strength, which is below
\* min_strength
C18_StrongestIsQueryOneAboveMin ==
    bop.name = "strongest" =>
        /\ QueryOne # <<>> => (bop.ret # <<>> /\ bop.ret[1].sig = QueryOne[1].sig)
        /\ QueryOne = <<>> =>
              /\ (bop.ret = <<>>) <=> (\A v \in FilteredStrengths : v <= 0)
              /\ bop.ret # <<>> =>
                    /\ bop.ret[1].val < DefaultMinStrength
                    /\ \A v \in FilteredStrengths : v <= bop.ret[1].val

\* strongest has passed over an earlier signal that the query would keep and
\* returned a later, stronger one
C18_Witness ==
    /\ bop.name = "strongest"
    /\ bop.ret # <<>>
    /\ QueryOne # <<>>
    /\ \E u \in Range(bus.signals) :
          /\ u < bop.ret[1].sig
          /\ StrengthAt(bus.heap[u], bop.x, 0) >= DefaultMinStrength
          /\ StrengthAt(bus.heap[u], bop.x, 0) < bop.ret[1].val
          /\ (bop.kinds.none \/ bus.heap[u].kind \in Range(bop.kinds.list))

\* C20 as stated: a Signal with a negative radius or a non-positive decay
\* rate is rejected at construction, so the bus never holds one
C20_InvalidNeverOnBus ==
    \A u \in DOMAIN bus.heap : bus.heap[u].radius >= 0 /\ bus.heap[u].decay > 0

\* C20 as amended: a Signal with a negative radius or a non-positive decay
\* rate is constructed and emitted as any other; on the bus a signal whose
\* radius is not positive has strength 0 at every point, and a signal whose
\* decay rate is not positive keeps its intensity through every step
C20_InvalidHandledOnBus ==
    [][/\ \A u \in DOMAIN bus.heap :
             bus.heap[u].decay <= 0 => bus'.heap[u].intensity = bus.heap[u].intensity
       /\ \A u \in DOMAIN bus'.heap : \A x \in QueryXs :
             bus'.heap[u].radius <= 0 => StrengthAt(bus'.heap[u], x, 0) = 0]_vars

\* a signal of negative radius and negative decay rate, emitted and still on
\* the bus after a step of positive dt
C20_Witness ==
    /\ bop.name = "step" /\ bop.dt > 0
    /\ \E u \in Range(bus.signals) :
          bus.heap[u].radius < 0 /\ bus.heap[u].decay < 0 /\ hist[u].elapsed > 0

-----------------------------------------------------------------------------
(* Signal strength claims, checked under SpecStrength *)

\* of the signal asked: the strength at x, and the distance of x from its centre
StrengthOf(x) == StrengthAtEps(bus.heap[1], x, 0, RadiusEps)
DistanceOf(x) == Abs(x - bus.heap[1].x)

\* strength_at is 0 from the radius on, the intensity at the centre, and
\* does not increase with the distance inside the radius
FallsOff ==
    /\ \A x \in StrengthXs : DistanceOf(x) >= bus.heap[1].radius => StrengthOf(x) = 0
    /\ \A x \in StrengthXs : DistanceOf(x) = 0 => StrengthOf(x) = bus.heap[1].intensity
    /\ \A x1, x2 \in StrengthXs :
          (DistanceOf(x1) <= DistanceOf(x2) /\ DistanceOf(x2) < bus.heap[1].radius)
              => StrengthOf(x2) <= StrengthOf(x1)

\* C25 as stated: for a signal with positive radius strength_at is 0 at
\* distance at least radius, the intensity at distance 0, and does not
\* increase as the distance grows within [0, radius)
C25_StrengthFallsOff ==
    (bop.name = "strength_at" /\ bus.heap[1].radius > 0) => FallsOff

\* C25 as amended: the same for a signal with a radius above 1e-6 and an
\* intensity that is not negative
C25_StrengthFallsOffAboveCutoff ==
    (bop.name = "strength_at" /\ bus.heap[1].radius > RadiusEps
        /\ bus.heap[1].intensity >= 0) => FallsOff

\* a signal of positive intensity asked at a point inside its radius and off
\* its centre, where its strength is below the intensity and above 0
C25_Witness ==
    /\ bop.name = "strength_at"
    /\ bus.heap[1].radius > RadiusEps
    /\ DistanceOf(bop.x) > 0
    /\ bop.ret[1].val > 0 /\ bop.ret[1].val < bus.heap[1].intensity

-----------------------------------------------------------------------------
(* Bus steps that advance no time *)

\* C26: a SignalBus.step with dt <= 0 leaves the intensity and the ttl of
\* every signal as they were, the signals it drops from the bus included.
C26_NoTimeNoChange ==
    [][(bop'.name = "step" /\ bop'.dt <= 0) =>
          \A u \in DOMAIN bus.heap :
              /\ bus'.heap[u].intensity = bus.heap[u].intensity
              /\ bus'.heap[u].ttl = bus.heap[u].ttl]_vars

\* the bus stepped with a negative dt while it holds a signal that decays
\* and that an earlier step has aged
C26_Witness ==
    /\ bop.name = "step"
    /\ bop.dt < 0
    /\ \E u \in Range(bus.signals) :
           /\ bus.heap[u].decay > 0
           /\ hist[u].elapsed > 0

-----------------------------------------------------------------------------
(* Reservation handshake *)

\* C30: within one tick a worker calls reserve_nearest at most once; a call
\* that returns None is not followed by another call of that worker in the
\* same tick.
C30_OneReservePerTick ==
    \A id \in DOMAIN asked :
        /\ Len(asked[id]) <= 1
        /\ \A n \in 1..Len(asked[id]) : asked[id][n] = 0 => n = Len(asked[id])

\* a tick has ended in which one worker's call failed and another worker's
\* call reserved a flower
C30_Witness ==
    /\ pending = {}
    /\ \E id \in DOMAIN asked : asked[id] = <<0>>
    /\ \E id \in DOMAIN asked :
           /\ Len(asked[id]) = 1
           /\ asked[id][1] # 0
           /\ workers[id].target_flower_id = asked[id][1]

\* worker id has been stepped as a forager in the transition, from state st,
\* and its only reserve_nearest call returned None
FailedReserveFrom(id, st) ==
    /\ id \in pending /\ id \notin pending'
    /\ workers[id].state = st
    /\ workers'[id].role = "forager"
    /\ asked'[id] = Append(asked[id], 0)

\* C31: when reserve_nearest returns None for a wandering forager, the step
\* ends without an exception, the forager is still in wander with no target,
\* and no flower's reserved flag has changed.
C31_FailedReserveStaysWander ==
    [][\A id \in DOMAIN workers :
          FailedReserveFrom(id, "wander") =>
              /\ id \notin raised'
              /\ workers'[id].state = "wander"
              /\ workers'[id].target_flower_id = 0
              /\ \A i \in DOMAIN flowers : flowers'[i].reserved = flowers[i].reserved]_vars

\* a forager in wander whose call in this tick returned None while a flower
\* is reserved by another worker
C31_Witness ==
    \E id \in DOMAIN workers :
        /\ asked[id] = <<0>>
        /\ workers[id].state = "wander"
        /\ workers[id].role = "forager"
        /\ \E j \in DOMAIN workers :
               /\ j # id
               /\ workers[j].target_flower_id # 0
               /\ HasFlower(flowers, workers[j].target_flower_id)
               /\ FlowerAt(flowers, workers[j].target_flower_id).reserved

\* worker id has been stepped in the transition
Stepped(id) == id \in pending /\ id \notin pending'

\* C34: a worker's memory of recently visited flowers never holds more than
\* AVOID_MEMORY identifiers; a visit enters the flower last and, when the
\* memory is full, drops the oldest entry and no other; and the flower a
\* reserve_nearest call returns to a worker is not in the worker's memory as
\* it is at the time of the call.
C34_BoundedMemory ==
    [][\A id \in DOMAIN workers :
          LET old == workers[id].avoid
              new == workers'[id].avoid
          IN  /\ Len(new) <= AVOID_MEMORY
              /\ new # old =>
                    /\ Stepped(id)
                    /\ new[Len(new)] = workers[id].target_flower_id
                    /\ SubSeq(new, 1, Len(new) - 1)
                           = (IF Len(old) < AVOID_MEMORY THEN old ELSE Tail(old))
              /\ (Stepped(id) /\ asked'[id] # asked[id]) =>
                    asked'[id][Len(asked'[id])] \notin Range(new)]_vars

\* a worker whose memory is full and has lost its oldest entry holds a new
\* reservation, made by the step in which it collected, on a flower outside
\* its memory
C34_Witness ==
    \E id \in DOMAIN workers :
        /\ id \notin pending
        /\ Len(workers[id].avoid) = AVOID_MEMORY
        /\ Cardinality(Range(workers[id].avoid)) = AVOID_MEMORY
        /\ workers[id].carry > 0
        /\ workers[id].state = "to_flower"
        /\ asked[id] = <<workers[id].target_flower_id>>
        /\ \E i \in DOMAIN flowers :
               flowers[i].ever_visited /\ ~flowers[i].reserved
                   /\ \A j \in DOMAIN workers : flowers[i].id \notin Range(workers[j].avoid)

-----------------------------------------------------------------------------
(* Order of ties *)

\* heap indices are handed out by emit in order, so u < v says that u was
\* emitted before v
TiesInEmissionOrder(ret) ==
    \A i, j \in 1..Len(ret) :
        (i < j /\ ret[i].val = ret[j].val) => ret[i].sig < ret[j].sig

\* ties come in emission order when the filter is None or names one kind
TiesInOrderForOneKind ==
    (bop.name = "query" /\ (bop.kinds.none \/ Len(bop.kinds.list) = 1)) =>
        TiesInEmissionOrder(bop.ret)

\* C29: signals of equal strength at the query point are returned by query
\* in the order in which they were emitted, whatever the kind filter, filters
\* naming several kinds included.
C29_TiesInEmissionOrder ==
    bop.name = "query" => TiesInEmissionOrder(bop.ret)

\* a query for two different kinds has returned two signals of equal
\* strength and of different kinds, the one emitted later first
C29_Witness ==
    /\ bop.name = "query"
    /\ bop.kinds = [none |-> FALSE, list |-> <<"tremble", "waggle">>]
    /\ \E i, j \in 1..Len(bop.ret) :
           /\ i < j
           /\ bop.ret[i].val = bop.ret[j].val
           /\ bop.ret[i].sig > bop.ret[j].sig
           /\ bus.heap[bop.ret[i].sig].kind # bus.heap[bop.ret[j].sig].kind

-----------------------------------------------------------------------------
(* Sensing *)

\* the signals of kind k on the bus whose strength at worker w is at least
\* the query's minimum strength
FeltOfKind(w, b, k) ==
    SelectSeq(b.signals, LAMBDA u : /\ b.heap[u].kind = k
                                    /\ StrengthAt(b.heap[u], w.x, HiveY) >= DefaultMinStrength)

\* the sum of the n strongest strengths among the signals us at worker w
TopSum(w, b, us, n) ==
    LET sorted == SortDesc([i \in 1..Len(us) |->
                               [sig |-> us[i], val |-> StrengthAt(b.heap[us[i]], w.x, HiveY)]],
                           1, <<>>)
        sumTo[i \in 0..Len(sorted)] == IF i = 0 THEN 0 ELSE sumTo[i - 1] + sorted[i].val
    IN  sumTo[Min(n, Len(sorted))]

\* every entry of the senses is for a kind of SENSE_KEYS and is the sum of
\* the strengths of between one and max_per_kind signals of that kind
SenseCapAndKinds ==
    dop.name = "sense_signals" =>
        \A k \in DOMAIN dop.senses :
            /\ k \in SENSE_KEYS
            /\ \E n \in 1..MaxPerKind :
                   /\ n <= Len(FeltOfKind(workers[1], bus, k))
                   /\ dop.senses[k] = TopSum(workers[1], bus, FeltOfKind(workers[1], bus, k), n)

\* C27: sense_signals returns, for each kind of SENSE_KEYS, the sum of the
\* strengths at the point over at most max_per_kind signals of that kind;
\* no other kind has an entry; and every kind of SENSE_KEYS that has a signal
\* on the bus with a strength at the point of at least the query's minimum
\* strength has an entry.
C27_SensePerKind ==
    /\ SenseCapAndKinds
    /\ dop.name = "sense_signals" =>
           \A k \in SENSE_KEYS :
               FeltOfKind(workers[1], bus, k) # <<>> => k \in DOMAIN dop.senses

\* a worker has sensed a bus on which a tremble is felt at its place, and the
\* senses hold waggle and no tremble
C27_Witness ==
    /\ dop.name = "sense_signals"
    /\ FeltOfKind(workers[1], bus, "tremble") # <<>>
    /\ "waggle" \in DOMAIN dop.senses
    /\ "tremble" \notin DOMAIN dop.senses

-----------------------------------------------------------------------------
(* Regrowth *)

\* C28: a FlowerField.step with dt > 0 lowers no flower's nectar and raises
\* none above the flower's capacity; of the calls of the field only
\* collect_from lowers a flower's nectar.
C28_StepRegrows ==
    [][/\ (fop'.name = "step" /\ fop'.dt > 0) =>
             \A i \in DOMAIN flowers :
                 /\ flowers'[i].nectar >= flowers[i].nectar
                 /\ flowers'[i].nectar > flowers[i].nectar =>
                        flowers'[i].nectar <= flowers'[i].cap
       /\ (\E i \in DOMAIN flowers : flowers'[i].nectar < flowers[i].nectar) =>
             fop'.name = "collect_from"]_vars

\* the field stepped by 30 s, long enough for the regrowth formula to pass
\* the capacity, with a flower that has been collected from full again
C28_Witness ==
    /\ fop.name = "step"
    /\ fop.dt = 300
    /\ \E i \in DOMAIN flowers :
           flowers[i].ever_visited /\ flowers[i].nectar = flowers[i].cap

-----------------------------------------------------------------------------
(* Role drive claims *)

\* C19: after every drives_from_senses update, for any sensed strengths and
\* any dt, each of the five role drives lies in the closed range [0, 5]
C19_DrivesInRange ==
    dop.name = "drives_from_senses" =>
        \A r \in Roles : DriveMin <= role_drives[r] /\ role_drives[r] <= DriveMax

\* an update that has held one drive at 5 whose sum was above 5 and another
\* at 0 whose sum was below 0
C19_Witness ==
    /\ dop.name = "drives_from_senses"
    /\ \E r \in Roles :
          RawDrive(dop.pre, dop.senses, dop.dt, r) > DriveMax /\ role_drives[r] = DriveMax
    /\ \E r \in Roles :
          RawDrive(dop.pre, dop.senses, dop.dt, r) < DriveMin /\ role_drives[r] = DriveMin

\* C36: with nothing sensed and dt > 0 a drives_from_senses update raises no
\* drive, and repeated updates bring every drive to exactly 0, where it stays.
C36_DecaysToZero ==
    /\ [][\A r \in Roles : role_drives'[r] <= role_drives[r]]_vars
    /\ <>[](\A r \in Roles : role_drives[r] = 0)

\* an update with nothing sensed has taken the last of a drive that held
\* less than one step of decay, and every drive is at 0
C36_Witness ==
    /\ dop.name = "drives_from_senses"
    /\ dop.senses = [k \in {} |-> 0]
    /\ dop.dt > 0
    /\ \E r \in Roles : 0 < dop.pre[r] /\ dop.pre[r] < KDecay * dop.dt
    /\ \A r \in Roles : role_drives[r] = 0

-----------------------------------------------------------------------------
(* Waggle guidance claims, checked under SpecGuide *)

\* the waggle target the step of worker id follows
GuideTarget(id) ==
    LET u == CHOOSE u \in FollowedSignals(workers[id], bus) : TRUE
    IN  bus.heap[u].payload[1]

\* the step of worker id from the current state to the next is that of a
\* forager in wander with spare capacity that senses a waggle carrying a
\* target, with a flower it can reserve
Guided(id) ==
    /\ id \in pending /\ id \notin pending'
    /\ workers'[id].role = "forager"
    /\ workers[id].state = "wander"
    /\ HasSpare(workers[id])
    /\ \E u \in FollowedSignals(workers[id], bus) : bus.heap[u].payload # <<>>
    /\ Qualifying(flowers, Range(workers[id].avoid)) # {}

\* the length of the step a recruited forager makes: speed scale 0.9 for half
\* the tick
RecruitStep == ((SPEED_MIN + SPEED_MAX) * 9 * (SimDt \div 2)) \div 100

\* C14 as stated: the guided forager ends its update with a velocity whose dot
\* product with the direction from the agent to the target is positive
C14_VelocityTowardTarget ==
    [][\A id \in DOMAIN workers :
          Guided(id) => workers'[id].vx * (GuideTarget(id) - workers'[id].x) > 0]_vars

\* C14 as amended: the velocity points from where the forager began the tick
\* toward the target, if the target is not that very point, and toward the
\* target from where it ends the tick if the target was farther away than the
\* recruit step
C14_VelocityTowardTargetFromStart ==
    [][\A id \in DOMAIN workers :
          Guided(id) =>
              LET tx == GuideTarget(id)
                  x0 == workers[id].x
              IN  /\ tx # x0 => workers'[id].vx * (tx - x0) > 0
                  /\ Abs(tx - x0) > RecruitStep
                        => workers'[id].vx * (tx - workers'[id].x) > 0]_vars

\* a recruited forager has stepped past the waggle's target and flies on away
\* from it
C14_Witness ==
    \E id \in DOMAIN workers :
        /\ id \notin pending /\ workers[id].state = "to_flower"
        /\ Len(bus.heap) = 1 /\ bus.heap[1].source_id = 999
        /\ workers[id].vx > 0
        /\ bus.heap[1].payload[1] > HiveX + 24
        /\ workers[id].x > bus.heap[1].payload[1]

\* the step of worker id from the current state to the next is that of a
\* forager in wander inside the hive that reads a waggle carrying a target
Adopts(id) ==
    /\ id \in pending /\ id \notin pending'
    /\ workers'[id].role = "forager"
    /\ workers[id].state = "wander"
    /\ \E u \in FollowedSignals(workers[id], bus) : bus.heap[u].payload # <<>>

\* C33: adopting a recruitment target from a waggle leaves the bus as it was,
\* the signal neither removed nor modified, so that every worker stepped
\* later adopts the same target from it: a worker that adopts and is still
\* in wander after its step holds the waggle's payload as its target.
C33_AdoptionReadsOnly ==
    [][\A id \in DOMAIN workers :
          Adopts(id) =>
              /\ bus' = bus
              /\ workers'[id].state = "wander" =>
                    workers'[id].recruit_target = <<GuideTarget(id), HiveY>>]_vars

\* the tick is over and every worker holds the target of the one waggle,
\* which is still in the bus
C33_Witness ==
    /\ pending = {}
    /\ Cardinality(DOMAIN workers) > 1
    /\ bus.signals = <<1>>
    /\ bus.heap[1].payload # <<>>
    /\ \A id \in DOMAIN workers :
           /\ workers[id].state = "wander"
           /\ workers[id].recruit_target = bus.heap[1].payload

-----------------------------------------------------------------------------
(* Hive intake claims, checked under SpecHive *)

\* C15 as stated: a drain for dt seconds at rate r lowers the queue by exactly
\* min(queue, r * dt) and raises total_deposited by the same amount, so their
\* sum is unchanged, and the queue never becomes negative
C15_DrainExact ==
    [][(hop'.name = "service_receiver" /\ hop'.dt >= 0 /\ hop'.rate >= 0) =>
          LET amount == Min(receiver_queue, hop'.rate * hop'.dt)
          IN  /\ receiver_queue' = receiver_queue - amount
              /\ total_deposited' = total_deposited + amount
              /\ receiver_queue' + total_deposited' = receiver_queue + total_deposited
              /\ receiver_queue' >= 0]_vars

\* C15 as amended: with dt > 0, r > 0 and more than 1e-9 in the queue the drain
\* moves exactly min(queue, r * dt) from the queue to total_deposited;
\* otherwise it changes neither; either way the sum is unchanged and the queue
\* is never negative
C15_DrainExactAboveCutoff ==
    [][hop'.name = "service_receiver" =>
          LET amount == IF hop'.dt > 0 /\ hop'.rate > 0 /\ receiver_queue > QueueEps
                        THEN Min(receiver_queue, hop'.rate * hop'.dt)
                        ELSE 0
          IN  /\ receiver_queue' = receiver_queue - amount
              /\ total_deposited' = total_deposited + amount
              /\ hop'.ret = amount
              /\ receiver_queue' + total_deposited' = receiver_queue + total_deposited
              /\ receiver_queue' >= 0]_vars

\* a drain has taken part of the queue, and one has emptied it
C15_Witness ==
    /\ hop.name = "service_receiver" /\ hop.ret > 0
    /\ hop.ret = hop.rate * hop.dt
    /\ receiver_queue > 0 /\ total_deposited >= hop.ret

====
